---- MODULE Spec2Model ----
(***************************************************************************)
(* Authentication core of the go-enterprise-api service: the credential    *)
(* store (users table), the token service (authService) and the access     *)
(* control guards (AuthMiddleware, OptionalAuthMiddleware, RequireRole).   *)
(*                                                                         *)
(* Every HTTP request is served by its own goroutine.  A request is a      *)
(* process whose steps are delimited by its calls to the credential store  *)
(* and by its reads of the wall clock; two request slots run concurrently. *)
(* One clock tick is one second, the precision jwt.NewNumericDate keeps.   *)
(***************************************************************************)
EXTENDS Integers, Sequences, FiniteSets, TLC

\* ---------------------------------------------------------------- bounds
MaxTime == 1        \* the clock runs from 0 to MaxTime seconds
AccessTTL == 1      \* JWT.ExpiryHours, scaled to ticks
RefreshTTL == 2     \* JWT.RefreshExpiryHours, scaled to ticks
MaxReq == 3         \* requests received in one behaviour
SessionTime == 2    \* the clock of SpecSession runs from 0 to SessionTime seconds
Limit == 2          \* RateLimiter.limit
Window == 1         \* RateLimiter.window, in ticks
MaxCalls == 4       \* Allow calls in one behaviour
LimiterTime == 3    \* the clock of SpecLimiter runs from 0 to LimiterTime
MaxOrigins == 2     \* entries of CORS.AllowedOrigins

Slots == {1, 2}
Emails == {"a@x.com", "b@x.com"}
Passwords == {"Passw0rd!", "N3wPassw0rd!"}
RegisterPasswords == {"Passw0rd!"}
\* A password of 60 characters, which the min=8 binding accepts.
LongPassword == "Passw0rd!Passw0rd!Passw0rd!Passw0rd!Passw0rd!Passw0rd!Passw0"
AcceptedPasswords == Passwords \cup {LongPassword}

\* ------------------------------------------------------------- constants
BearerPrefix == "Bearer "
Secret == "a-configured-jwt-secret-of-32-chars"
RoleUser == "user"
RoleAdmin == "admin"
RoleModerator == "moderator"
StatusActive == "active"
StatusInactive == "inactive"
StatusBanned == "banned"
StatusPending == "pending"
StatusInputs == {StatusActive, StatusBanned}
RoleInputs == {RoleAdmin}
RoleRequests == {RoleUser, RoleAdmin, RoleModerator}

StatusUnauthorized == 401
StatusForbidden == 403
StatusNotFound == 404
StatusBadRequest == 400
StatusConflict == 409
StatusInternalServerError == 500
StatusOK == 200
StatusCreated == 201
StatusNoContent == 204
StatusTooManyRequests == 429

CodeInternalError == 1000
CodeBadRequest == 1003
CodeUnauthorized == 2000
CodeInvalidToken == 2001
CodeInvalidCredentials == 2003
CodeForbidden == 2004
CodeUserNotFound == 3000
CodeInvalidPassword == 3002
CodeEmailExists == 3003
CodeNotFound == 1002
CodeTooManyRequests == 1005
PostStatusDraft == "draft"
PostStatusPublished == "published"

VARIABLES
    users,      \* the users table: a sequence of rows, a row's id is its index
    now,        \* time.Now(), in seconds
    req,        \* req[s]: the locals of the request slot s is serving
    errs,       \* the Details field of the predefined *AppError values
    nreq,       \* number of requests received so far
    issued,     \* history: the refresh tokens of the token pairs returned to clients
    exchanged,  \* history: refresh tokens RefreshTokens has accepted and replaced
    cleared,    \* history: refresh tokens issued before a Logout not yet followed by a Login
    requests,   \* RateLimiter.requests: key -> clientInfo
    mu,         \* RateLimiter.mu: the goroutine that holds the lock, or Unlocked
    lim,        \* lim[p]: the locals of goroutine p inside Allow or cleanup
    ncalls,     \* number of Allow calls so far
    admits,     \* history: per key, the window last opened and the calls admitted in it
    posts,      \* the posts table: a sequence of rows, a row's id is its index
    cfg         \* the config.Config loaded at startup

\* The state of the credential store and its requests, and of the rate limiter.
auth == <<users, req, errs, nreq, issued, exchanged, cleared>>
limiter == <<requests, mu, lim, ncalls, admits>>

vars == <<users, now, req, errs, nreq, issued, exchanged, cleared, limiter, posts, cfg>>

\* ------------------------------------------------------------------ data
\* A JWT string is determined by its header (alg), its claims and the key that
\* signed it; HS256 signing is deterministic.  The empty string and a string
\* that is no JWT are the two values that carry no claims.
NoClaims == [uid |-> 0, email |-> "", role |-> "", kind |-> "", iat |-> 0, exp |-> 0]
EmptyTok == [claims |-> NoClaims, key |-> "", alg |-> ""]
Malformed == [claims |-> NoClaims, key |-> "", alg |-> "malformed"]

NoPair == [access |-> EmptyTok, refresh |-> EmptyTok, expiresAt |-> 0, tokenType |-> ""]

NoUser ==
    [id |-> 0, email |-> "", password |-> [hashed |-> FALSE, text |-> ""],
     role |-> "", status |-> "", refreshToken |-> EmptyTok, deleted |-> FALSE]

NoResp == [status |-> 0, code |-> 0, message |-> "", details |-> ""]

\* No post: the nil *models.Post.
NoPost ==
    [id |-> 0, slug |-> "", userID |-> 0, status |-> "", viewCount |-> 0,
     deleted |-> FALSE]

\* The locals of a request: its position, its inputs (scheme and tok are the
\* Authorization header, or tok is the refresh_token of the body; email and
\* pw are the body of Login; old and pw the body of ChangePassword), what the
\* guard attached to its gin.Context (user, claims, the number of c.Next()
\* calls), the number of store lookups the guard made, and what was written
\* as its response.  raced is history: a
\* concurrent RefreshTokens call that read the same stored token has
\* returned a pair already.
Idle ==
    [pc |-> "idle", op |-> "", scheme |-> "", tok |-> EmptyTok,
     email |-> "", pw |-> "", old |-> "", id |-> 0, status |-> "", role |-> "",
     user |-> NoUser, claims |-> NoClaims, next |-> 0, lookups |-> 0,
     resp |-> NoResp, pair |-> NoPair, raced |-> FALSE, slug |-> "", post |-> NoPost,
     ip |-> "", key |-> "", page |-> 0, pageSize |-> 0, limit |-> 0, offset |-> 0,
     origin |-> "", allowOrigin |-> "", total |-> 0, meta |-> [page |-> 0, perPage |-> 0, total |-> 0, totalPages |-> 0]]

\* config.Load with no CORS_ALLOWED_ORIGINS in the environment: the default
\* "*", split at commas.
Load == [AllowedOrigins |-> <<"*">>]

\* ------------------------------------------------------ predefined errors
\* The predefined errors are package variables holding *AppError pointers.
ErrStatus ==
    [ErrInternal |-> StatusInternalServerError, ErrBadRequest |-> StatusBadRequest,
     ErrNotFound |-> StatusNotFound,
     ErrInvalidToken |-> StatusUnauthorized, ErrInvalidCredentials |-> StatusUnauthorized,
     ErrForbidden |-> StatusForbidden, ErrUserNotFound |-> StatusNotFound,
     ErrEmailExists |-> StatusConflict, ErrInvalidPassword |-> StatusBadRequest]

ErrCode ==
    [ErrInternal |-> CodeInternalError, ErrBadRequest |-> CodeBadRequest,
     ErrNotFound |-> CodeNotFound,
     ErrInvalidToken |-> CodeInvalidToken, ErrInvalidCredentials |-> CodeInvalidCredentials,
     ErrForbidden |-> CodeForbidden, ErrUserNotFound |-> CodeUserNotFound,
     ErrEmailExists |-> CodeEmailExists, ErrInvalidPassword |-> CodeInvalidPassword]

ErrMessage ==
    [ErrInternal |-> "Internal server error", ErrBadRequest |-> "Bad request",
     ErrNotFound |-> "Resource not found",
     ErrInvalidToken |-> "Invalid token", ErrInvalidCredentials |-> "Invalid credentials",
     ErrForbidden |-> "Forbidden", ErrUserNotFound |-> "User not found",
     ErrEmailExists |-> "Email already exists", ErrInvalidPassword |-> "Invalid password"]

ErrNames == DOMAIN ErrStatus

\* (e *AppError) WithDetails: writes the Details of the receiver itself and
\* returns the receiver, so the predefined value keeps the details.
WithDetails(es, name, details) == [es EXCEPT ![name] = details]

\* response.Error: the status, code, message and details of the error value
\* as they are when the response is written.
ErrorResponse(es, name) ==
    [status |-> ErrStatus[name], code |-> ErrCode[name],
     message |-> ErrMessage[name], details |-> es[name]]

\* response.Unauthorized / response.Forbidden: a fixed status and code, the
\* caller's message, no details.
Unauthorized(message) ==
    [status |-> StatusUnauthorized, code |-> CodeUnauthorized,
     message |-> message, details |-> ""]

\* A variant of response.Forbidden that answers 401 with the code of
\* response.Unauthorized.
Forbidden_AsUnauthorized(message) ==
    [status |-> StatusUnauthorized, code |-> CodeUnauthorized,
     message |-> message, details |-> ""]

Forbidden(message) ==
    [status |-> StatusForbidden, code |-> CodeForbidden,
     message |-> message, details |-> ""]

\* response.Success / response.Created.
SuccessResponse(status) == [status |-> status, code |-> 0, message |-> "", details |-> ""]

\* ------------------------------------------------------------- passwords
\* A variant of User.CheckPassword that accepts any password.
CheckPassword_AnyPassword(u, p) == u.password.hashed

PwLen(p) ==
    IF p = "Passw0rd!" THEN 9
    ELSE IF p = "N3wPassw0rd!" THEN 12
    ELSE IF p = LongPassword THEN 60
    ELSE 0

\* bcrypt.GenerateFromPassword: a one-way hash of the plaintext.
GenerateFromPassword(p) == [hashed |-> TRUE, text |-> p]

\* User.BeforeCreate: hashes the password when its length is in 1..59.
BeforeCreate(u) ==
    IF PwLen(u.password.text) > 0 /\ PwLen(u.password.text) < 60
    THEN [u EXCEPT !.password = GenerateFromPassword(u.password.text)]
    ELSE u

\* User.CheckPassword: bcrypt.CompareHashAndPassword returns nil.
CheckPassword(u, p) == u.password.hashed /\ u.password.text = p

\* User.IsActive.
IsActive(u) == u.status = StatusActive

\* ------------------------------------------------------ credential store
\* Rows that queries see: gorm leaves out the rows that are soft-deleted.
LiveIds(us) == {i \in 1..Len(us) : ~us[i].deleted}

\* userRepository.FindByID: the row, or NoUser for ErrUserNotFound.
FindByID(us, id) == IF id \in LiveIds(us) THEN us[id] ELSE NoUser

\* userRepository.FindByEmail.
FindByEmail(us, email) ==
    IF \E i \in LiveIds(us) : us[i].email = email
    THEN us[CHOOSE i \in LiveIds(us) : us[i].email = email]
    ELSE NoUser

\* userRepository.ExistsByEmail.
ExistsByEmail(us, email) == \E i \in LiveIds(us) : us[i].email = email

\* A users table without the unique index on email.
EmailIndexed_None(us, email) == FALSE

\* The unique index on users.email covers every row of the table.
EmailIndexed(us, email) == \E i \in 1..Len(us) : us[i].email = email

\* BaseRepository.Create, after the BeforeCreate hook gave the row its id.
Create(us, u) == Append(us, [BeforeCreate(u) EXCEPT !.id = Len(us) + 1])

\* userRepository.UpdateRefreshToken: UPDATE ... WHERE id = ?; no row, no error.
UpdateRefreshToken(us, id, token) ==
    IF id \in LiveIds(us) THEN [us EXCEPT ![id].refreshToken = token] ELSE us

\* userRepository.UpdatePassword.
UpdatePassword(us, id, password) ==
    IF id \in LiveIds(us) THEN [us EXCEPT ![id].password = password] ELSE us

\* userRepository.UpdateStatus.
UpdateStatus(us, id, status) ==
    IF id \in LiveIds(us) THEN [us EXCEPT ![id].status = status] ELSE us

\* userRepository.UpdateRole.
UpdateRole(us, id, role) ==
    IF id \in LiveIds(us) THEN [us EXCEPT ![id].role = role] ELSE us

\* BaseRepository.Delete: a soft delete.
Delete(us, id) ==
    IF id \in LiveIds(us) THEN [us EXCEPT ![id].deleted = TRUE] ELSE us

\* --------------------------------------------------------- token service
\* jwt.NewWithClaims(jwt.SigningMethodHS256, claims).SignedString(secret).
SignedString(claims, key) == [claims |-> claims, key |-> key, alg |-> "HS256"]

\* A variant of generateTokenPair whose access claims carry no role.
generateTokenPair_NoRole(u, t) ==
    [access |-> SignedString([uid |-> u.id, email |-> u.email, role |-> "",
                              kind |-> "access", iat |-> t, exp |-> t + AccessTTL], Secret),
     refresh |-> SignedString([uid |-> u.id, email |-> u.email, role |-> u.role,
                               kind |-> "refresh", iat |-> t, exp |-> t + RefreshTTL], Secret),
     expiresAt |-> t + AccessTTL,
     tokenType |-> "Bearer"]

\* A variant of generateTokenPair that hands out the refresh token as the
\* access token too.
generateTokenPair_RefreshAsAccess(u, t) ==
    [access |-> SignedString([uid |-> u.id, email |-> u.email, role |-> u.role,
                              kind |-> "refresh", iat |-> t, exp |-> t + RefreshTTL], Secret),
     refresh |-> SignedString([uid |-> u.id, email |-> u.email, role |-> u.role,
                               kind |-> "refresh", iat |-> t, exp |-> t + RefreshTTL], Secret),
     expiresAt |-> t + AccessTTL,
     tokenType |-> "Bearer"]

\* authService.generateTokenPair at time t.
generateTokenPair(u, t) ==
    [access |-> SignedString([uid |-> u.id, email |-> u.email, role |-> u.role,
                              kind |-> "access", iat |-> t, exp |-> t + AccessTTL], Secret),
     refresh |-> SignedString([uid |-> u.id, email |-> u.email, role |-> u.role,
                               kind |-> "refresh", iat |-> t, exp |-> t + RefreshTTL], Secret),
     expiresAt |-> t + AccessTTL,
     tokenType |-> "Bearer"]

\* A variant of ValidateToken that verifies the signature under whatever key
\* signed the token.
ValidateToken_AnyKey(tok, t) ==
    /\ tok.alg \in {"HS256", "HS384", "HS512"}
    /\ t < tok.claims.exp
    /\ t >= tok.claims.iat

\* A variant of ValidateToken that does not look at the expiry.
ValidateToken_NoExpiry(tok, t) ==
    /\ tok.alg \in {"HS256", "HS384", "HS512"}
    /\ tok.key = Secret
    /\ t >= tok.claims.iat

\* authService.ValidateToken at time t: the signing method is HMAC, the
\* signature verifies under the configured secret, and the registered claims
\* are valid (now < exp, now >= nbf; nbf is set to iat).
ValidateToken(tok, t) ==
    /\ tok.alg \in {"HS256", "HS384", "HS512"}
    /\ tok.key = Secret
    /\ t < tok.claims.exp
    /\ t >= tok.claims.iat

\* ---------------------------------------------------------------- guards
\* The Authorization header is the scheme prefix followed by the rest; the
\* header is the empty string when both parts are empty.
HeaderEmpty(scheme, tok) == scheme = "" /\ tok = EmptyTok

\* strings.HasPrefix(authHeader, BearerPrefix).
HasBearerPrefix(scheme, tok) == scheme = BearerPrefix

\* A variant of GetUserFromToken that gives the identity the role of the
\* token's claims.
GetUserFromToken_ClaimsRole(us, claims, ok) ==
    IF ok /\ FindByID(us, claims.uid) # NoUser
    THEN [FindByID(us, claims.uid) EXCEPT !.role = claims.role]
    ELSE NoUser

\* authService.GetUserFromToken: FindByID of claims.UserID; ok is false when
\* the store call fails.
GetUserFromToken(us, claims, ok) == IF ok THEN FindByID(us, claims.uid) ELSE NoUser

\* What a guard did with a request.
Rejected(resp, es) ==
    [abort |-> TRUE, next |-> 0, resp |-> resp, user |-> NoUser, claims |-> NoClaims,
     errs |-> es, lookups |-> 0]

Proceeded(user, claims, es) ==
    [abort |-> FALSE, next |-> 1, resp |-> NoResp, user |-> user, claims |-> claims,
     errs |-> es, lookups |-> 0]

\* The guard called authService.GetUserFromToken before it got to out.
Looked(out) == [out EXCEPT !.lookups = 1]

\* A variant of AuthMiddleware without the user.IsActive() check.
AuthMiddleware_NoActiveCheck(scheme, tok, us, t, es, ok) ==
    IF HeaderEmpty(scheme, tok)
    THEN Rejected(Unauthorized("Authorization header is required"), es)
    ELSE IF ~HasBearerPrefix(scheme, tok)
    THEN Rejected(Unauthorized("Invalid authorization header format"), es)
    ELSE IF tok = EmptyTok
    THEN Rejected(Unauthorized("Token is required"), es)
    ELSE IF ~ValidateToken(tok, t)
    THEN Rejected(ErrorResponse(es, "ErrInvalidToken"), es)
    ELSE IF tok.claims.kind # "access"
    THEN Rejected(ErrorResponse(WithDetails(es, "ErrInvalidToken", "Invalid token type"),
                                "ErrInvalidToken"),
                  WithDetails(es, "ErrInvalidToken", "Invalid token type"))
    ELSE IF GetUserFromToken(us, tok.claims, ok) = NoUser
    THEN Looked(Rejected(ErrorResponse(es, "ErrUserNotFound"), es))
    ELSE Looked(Proceeded(GetUserFromToken(us, tok.claims, ok), tok.claims, es))

\* A variant of AuthMiddleware that also rejects the token of an identity
\* whose stored refresh token is cleared.
AuthMiddleware_SessionCheck(scheme, tok, us, t, es, ok) ==
    IF HeaderEmpty(scheme, tok)
    THEN Rejected(Unauthorized("Authorization header is required"), es)
    ELSE IF ~HasBearerPrefix(scheme, tok)
    THEN Rejected(Unauthorized("Invalid authorization header format"), es)
    ELSE IF tok = EmptyTok
    THEN Rejected(Unauthorized("Token is required"), es)
    ELSE IF ~ValidateToken(tok, t)
    THEN Rejected(ErrorResponse(es, "ErrInvalidToken"), es)
    ELSE IF tok.claims.kind # "access"
    THEN Rejected(ErrorResponse(WithDetails(es, "ErrInvalidToken", "Invalid token type"),
                                "ErrInvalidToken"),
                  WithDetails(es, "ErrInvalidToken", "Invalid token type"))
    ELSE IF GetUserFromToken(us, tok.claims, ok) = NoUser
    THEN Looked(Rejected(ErrorResponse(es, "ErrUserNotFound"), es))
    ELSE IF ~IsActive(GetUserFromToken(us, tok.claims, ok))
    THEN Looked(Rejected(Forbidden("Account is not active"), es))
    ELSE IF GetUserFromToken(us, tok.claims, ok).refreshToken = EmptyTok
    THEN Looked(Rejected(ErrorResponse(es, "ErrInvalidToken"), es))
    ELSE Looked(Proceeded(GetUserFromToken(us, tok.claims, ok), tok.claims, es))

\* middleware.AuthMiddleware on a request with the given header, at time t.
AuthMiddleware(scheme, tok, us, t, es, ok) ==
    IF HeaderEmpty(scheme, tok)
    THEN Rejected(Unauthorized("Authorization header is required"), es)
    ELSE IF ~HasBearerPrefix(scheme, tok)
    THEN Rejected(Unauthorized("Invalid authorization header format"), es)
    ELSE IF tok = EmptyTok
    THEN Rejected(Unauthorized("Token is required"), es)
    ELSE IF ~ValidateToken(tok, t)
    THEN Rejected(ErrorResponse(es, "ErrInvalidToken"), es)
    ELSE IF tok.claims.kind # "access"
    THEN Rejected(ErrorResponse(WithDetails(es, "ErrInvalidToken", "Invalid token type"),
                                "ErrInvalidToken"),
                  WithDetails(es, "ErrInvalidToken", "Invalid token type"))
    ELSE IF GetUserFromToken(us, tok.claims, ok) = NoUser
    THEN Looked(Rejected(ErrorResponse(es, "ErrUserNotFound"), es))
    ELSE IF ~IsActive(GetUserFromToken(us, tok.claims, ok))
    THEN Looked(Rejected(Forbidden("Account is not active"), es))
    ELSE Looked(Proceeded(GetUserFromToken(us, tok.claims, ok), tok.claims, es))

\* A variant of OptionalAuthMiddleware without the claims.TokenType check.
OptionalAuthMiddleware_AnyKind(scheme, tok, us, t, es, ok) ==
    IF HeaderEmpty(scheme, tok)
    THEN Proceeded(NoUser, NoClaims, es)
    ELSE IF ~HasBearerPrefix(scheme, tok)
    THEN Proceeded(NoUser, NoClaims, es)
    ELSE IF tok = EmptyTok
    THEN Proceeded(NoUser, NoClaims, es)
    ELSE IF ~ValidateToken(tok, t)
    THEN Proceeded(NoUser, NoClaims, es)
    ELSE IF GetUserFromToken(us, tok.claims, ok) = NoUser
    THEN Looked(Proceeded(NoUser, NoClaims, es))
    ELSE Looked(Proceeded(GetUserFromToken(us, tok.claims, ok), tok.claims, es))

\* middleware.OptionalAuthMiddleware.
OptionalAuthMiddleware(scheme, tok, us, t, es, ok) ==
    IF HeaderEmpty(scheme, tok)
    THEN Proceeded(NoUser, NoClaims, es)
    ELSE IF ~HasBearerPrefix(scheme, tok)
    THEN Proceeded(NoUser, NoClaims, es)
    ELSE IF tok = EmptyTok
    THEN Proceeded(NoUser, NoClaims, es)
    ELSE IF ~ValidateToken(tok, t)
    THEN Proceeded(NoUser, NoClaims, es)
    ELSE IF tok.claims.kind # "access"
    THEN Proceeded(NoUser, NoClaims, es)
    ELSE IF GetUserFromToken(us, tok.claims, ok) = NoUser
    THEN Looked(Proceeded(NoUser, NoClaims, es))
    ELSE Looked(Proceeded(GetUserFromToken(us, tok.claims, ok), tok.claims, es))

\* A variant of RequireRole without the role check.
RequireRole_AnyRole(roles, user) ==
    IF user = NoUser
    THEN [abort |-> TRUE, resp |-> Unauthorized("Authentication required")]
    ELSE [abort |-> FALSE, resp |-> NoResp]

\* middleware.RequireRole(roles...) on a context whose UserKey holds user
\* (NoUser when the key is not set): whether it aborts, and what it answers.
RequireRole(roles, user) ==
    IF user = NoUser
    THEN [abort |-> TRUE, resp |-> Unauthorized("Authentication required")]
    ELSE IF user.role \notin roles
    THEN [abort |-> TRUE, resp |-> Forbidden("Insufficient permissions")]
    ELSE [abort |-> FALSE, resp |-> NoResp]

\* middleware.RequireAdmin: RequireRole(models.RoleAdmin).
RequireAdmin(user) == RequireRole({RoleAdmin}, user)

\* ------------------------------------------------------- request inputs
\* The access token generated together with refresh token r.
AccessOf(r) ==
    [r EXCEPT !.claims.kind = "access", !.claims.exp = r.claims.iat + AccessTTL]

\* Tokens returned to clients so far.
Delivered == issued \cup {AccessOf(r) : r \in issued}

\* What a client can send as a token: nothing, a string that is no JWT, a
\* token it was given, or a token it was given re-signed with a key of its own
\* or under an asymmetric algorithm.
Presentable ==
    {EmptyTok, Malformed} \cup Delivered
        \cup {[t EXCEPT !.key = "attacker-key"] : t \in Delivered}
        \cup {[t EXCEPT !.alg = "RS256"] : t \in Delivered}

\* Authorization headers: none, one of another scheme, a bare "Bearer ", and
\* "Bearer " followed by a token.
Headers ==
    {<<"", EmptyTok>>, <<"Basic ", Malformed>>}
        \cup {<<BearerPrefix, t>> : t \in Presentable}

UserIds == 1..Cardinality(Emails)

TokensOf(S, uid) == {t \in S : t.claims.uid = uid}

\* ------------------------------------------------------------ processes
\* A request is received by the first idle slot (the slots are alike).
Receive(s) ==
    /\ req[s].pc = "idle"
    /\ \A r \in Slots : r < s => req[r].pc # "idle"
    /\ nreq < MaxReq
    /\ nreq' = nreq + 1

\* The slot goes on with the given locals.
Goto(s, locals) == req' = [req EXCEPT ![s] = locals]

\* The locals of a request whose response is written.
Answered(op, resp) == [Idle EXCEPT !.pc = "done", !.op = op, !.resp = resp]

\* A service call returned err; the handler answers response.Error(c, err).
Failed(op, es, err) == Answered(op, ErrorResponse(es, err))

\* The handler has returned: the slot is free for the next request.
Respond(s) ==
    /\ req[s].pc = "done"
    /\ req' = [req EXCEPT ![s] = Idle]
    /\ UNCHANGED <<users, now, cfg, limiter, posts, errs, nreq, issued, exchanged, cleared>>

\* ------------------------------------------------------------- the clock
Tick ==
    /\ now < MaxTime
    /\ now' = now + 1
    /\ UNCHANGED <<auth, limiter, posts, cfg>>

\* -------------------------------------------------- authService.Register
\* ExistsByEmail; ok is false when the store call fails.
Register_Exists(s, email, pw, ok) ==
    /\ Receive(s)
    /\ IF ~ok THEN Goto(s, Failed("Register", errs, "ErrInternal"))
       ELSE IF ExistsByEmail(users, email)
       THEN Goto(s, Failed("Register", errs, "ErrEmailExists"))
       ELSE Goto(s, [Idle EXCEPT !.pc = "rg_create", !.op = "Register",
                                 !.email = email, !.pw = pw])
    /\ UNCHANGED <<users, now, cfg, limiter, posts, errs, issued, exchanged, cleared>>

\* Create: the insert fails when the store fails or the email is in the
\* unique index already.
Register_Create(s, ok) ==
    /\ req[s].pc = "rg_create"
    /\ IF ~ok \/ EmailIndexed(users, req[s].email)
       THEN /\ Goto(s, [Failed("Register", errs, "ErrInternal")
                           EXCEPT !.email = req[s].email])
            /\ users' = users
       ELSE /\ users' = Create(users, [NoUser EXCEPT !.email = req[s].email,
                                                    !.password.text = req[s].pw,
                                                    !.role = RoleUser,
                                                    !.status = StatusActive])
            /\ Goto(s, [req[s] EXCEPT !.pc = "rg_save", !.user = users'[Len(users')]])
    /\ UNCHANGED <<now, cfg, limiter, posts, errs, nreq, issued, exchanged, cleared>>

\* generateTokenPair and UpdateRefreshToken, then the response.
Register_Save(s, ok) ==
    /\ req[s].pc = "rg_save"
    /\ LET tokens == generateTokenPair(req[s].user, now) IN
       IF ok
       THEN /\ users' = UpdateRefreshToken(users, req[s].user.id, tokens.refresh)
            /\ Goto(s, [Answered("Register", SuccessResponse(StatusCreated))
                           EXCEPT !.pair = tokens, !.user = req[s].user])
            /\ issued' = issued \cup {tokens.refresh}
       ELSE /\ Goto(s, Failed("Register", errs, "ErrInternal"))
            /\ UNCHANGED <<users, issued>>
    /\ UNCHANGED <<now, cfg, limiter, posts, errs, nreq, exchanged, cleared>>

\* ----------------------------------------------------- authService.Login
\* A variant of Login that answers an unknown email with ErrUserNotFound.
LoginCheck_NotFound(email, pw, us, ok) ==
    LET user == IF ok THEN FindByEmail(us, email) ELSE NoUser IN
    IF user = NoUser THEN "ErrUserNotFound"
    ELSE IF ~CheckPassword(user, pw) THEN "ErrInvalidCredentials"
    ELSE IF ~IsActive(user) THEN "ErrForbidden"
    ELSE ""

\* The error Login returns before it generates tokens, "" when it goes on:
\* FindByEmail, CheckPassword, IsActive.
LoginCheck(email, pw, us, ok) ==
    LET user == IF ok THEN FindByEmail(us, email) ELSE NoUser IN
    IF user = NoUser THEN "ErrInvalidCredentials"
    ELSE IF ~CheckPassword(user, pw) THEN "ErrInvalidCredentials"
    ELSE IF ~IsActive(user) THEN "ErrForbidden"
    ELSE ""

Login_Find(s, email, pw, ok) ==
    /\ Receive(s)
    /\ LET err == LoginCheck(email, pw, users, ok) IN
       IF err = ""
       THEN /\ Goto(s, [Idle EXCEPT !.pc = "lg_save", !.op = "Login",
                                    !.email = email, !.pw = pw,
                                    !.user = FindByEmail(users, email)])
            /\ errs' = errs
       ELSE /\ errs' = IF err = "ErrForbidden"
                       THEN WithDetails(errs, "ErrForbidden", "Account is not active")
                       ELSE errs
            /\ Goto(s, [Failed("Login", errs', err) EXCEPT !.email = email, !.pw = pw])
    /\ UNCHANGED <<users, now, cfg, limiter, posts, issued, exchanged, cleared>>

\* generateTokenPair, then UpdateRefreshToken and UpdateLastLogin, whose
\* errors are logged only, then the response.  (last_login_at is not part of
\* the model.)
Login_Save(s, ok) ==
    /\ req[s].pc = "lg_save"
    /\ LET tokens == generateTokenPair(req[s].user, now) IN
       /\ users' = IF ok THEN UpdateRefreshToken(users, req[s].user.id, tokens.refresh)
                   ELSE users
       /\ Goto(s, [Answered("Login", SuccessResponse(StatusOK))
                      EXCEPT !.pair = tokens, !.user = req[s].user])
       /\ issued' = issued \cup {tokens.refresh}
    /\ cleared' = cleared \ TokensOf(cleared, req[s].user.id)
    /\ UNCHANGED <<now, cfg, limiter, posts, errs, nreq, exchanged>>

\* --------------------------------------------- authService.RefreshTokens
\* A variant of RefreshTokens that answers a token that is not the stored one
\* with ErrForbidden.
RefreshTokensCheck_MismatchForbidden(tok, us, t, ok) ==
    LET user == IF ok THEN FindByID(us, tok.claims.uid) ELSE NoUser IN
    IF ~ValidateToken(tok, t) THEN "ErrInvalidToken"
    ELSE IF tok.claims.kind # "refresh" THEN "ErrInvalidToken"
    ELSE IF user = NoUser THEN "ErrUserNotFound"
    ELSE IF user.refreshToken # tok THEN "ErrForbidden"
    ELSE IF ~IsActive(user) THEN "ErrForbidden"
    ELSE ""

\* The error RefreshTokens returns before it generates tokens, "" when it
\* goes on: ValidateToken, the kind check, FindByID (ok is false when the
\* store call fails), the stored-token check, IsActive.
RefreshTokensCheck(tok, us, t, ok) ==
    LET user == IF ok THEN FindByID(us, tok.claims.uid) ELSE NoUser IN
    IF ~ValidateToken(tok, t) THEN "ErrInvalidToken"
    ELSE IF tok.claims.kind # "refresh" THEN "ErrInvalidToken"
    ELSE IF user = NoUser THEN "ErrUserNotFound"
    ELSE IF user.refreshToken # tok THEN "ErrInvalidToken"
    ELSE IF ~IsActive(user) THEN "ErrForbidden"
    ELSE ""

\* RefreshTokens presented with tok passes every check in the store us at
\* time t, the store answering.
AcceptedBy(us, t, tok) == RefreshTokensCheck(tok, us, t, TRUE) = ""

\* AuthHandler.RefreshTokens binds the body, whose refresh_token is required
\* to be non-empty, and calls the service.
RefreshTokens_Find(s, tok, ok) ==
    /\ Receive(s)
    /\ IF ok THEN TRUE ELSE ValidateToken(tok, now) /\ tok.claims.kind = "refresh"
    /\ LET err == RefreshTokensCheck(tok, users, now, ok) IN
       IF err = ""
       THEN /\ Goto(s, [Idle EXCEPT !.pc = "rt_save", !.op = "RefreshTokens", !.tok = tok,
                                    !.user = FindByID(users, tok.claims.uid)])
            /\ errs' = errs
       ELSE /\ errs' = IF err = "ErrForbidden"
                       THEN WithDetails(errs, "ErrForbidden", "Account is not active")
                       ELSE errs
            /\ Goto(s, [Failed("RefreshTokens", errs', err) EXCEPT !.tok = tok])
    /\ UNCHANGED <<users, now, cfg, limiter, posts, issued, exchanged, cleared>>

\* generateTokenPair and UpdateRefreshToken, then the response.  The calls
\* still between their read of the same stored token and their write are
\* marked.
RefreshTokens_Save(s, ok) ==
    /\ req[s].pc = "rt_save"
    /\ LET tokens == generateTokenPair(req[s].user, now) IN
       IF ok
       THEN /\ users' = UpdateRefreshToken(users, req[s].user.id, tokens.refresh)
            /\ req' = [r \in Slots |->
                         IF r = s
                         THEN [Answered("RefreshTokens", SuccessResponse(StatusOK))
                                 EXCEPT !.pair = tokens, !.user = req[s].user,
                                        !.tok = req[s].tok,
                                        !.raced = req[s].raced]
                         ELSE IF /\ req[r].pc = "rt_save"
                                 /\ req[r].user.id = req[s].user.id
                                 /\ req[r].user.refreshToken = req[s].user.refreshToken
                         THEN [req[r] EXCEPT !.raced = TRUE]
                         ELSE req[r]]
            /\ issued' = issued \cup {tokens.refresh}
            /\ exchanged' = exchanged \cup {req[s].user.refreshToken}
       ELSE /\ Goto(s, [Failed("RefreshTokens", errs, "ErrInternal") EXCEPT !.tok = req[s].tok])
            /\ UNCHANGED <<users, issued, exchanged>>
    /\ UNCHANGED <<now, cfg, limiter, posts, errs, nreq, cleared>>

\* ------------------------------------------------------ protected routes
\* The guard makes its store call, which may fail, only when the token checks
\* before it pass.
ReachesStore(scheme, tok, t) ==
    /\ ~HeaderEmpty(scheme, tok)
    /\ HasBearerPrefix(scheme, tok)
    /\ tok # EmptyTok
    /\ ValidateToken(tok, t)
    /\ tok.claims.kind = "access"

\* AuthMiddleware in front of a handler; the handler runs from pc `first`
\* when the guard calls c.Next().
Guarded(s, op, first, scheme, tok, ok) ==
    /\ Receive(s)
    /\ IF ok THEN TRUE ELSE ReachesStore(scheme, tok, now)
    /\ LET out == AuthMiddleware(scheme, tok, users, now, errs, ok) IN
       /\ errs' = out.errs
       /\ IF out.abort
          THEN Goto(s, [Answered(op, out.resp) EXCEPT !.scheme = scheme, !.tok = tok,
                                                      !.lookups = out.lookups])
          ELSE Goto(s, [Idle EXCEPT !.pc = first, !.op = op, !.scheme = scheme, !.tok = tok,
                                    !.user = out.user, !.claims = out.claims,
                                    !.next = out.next, !.lookups = out.lookups])
    /\ UNCHANGED <<users, now, cfg, limiter, posts, issued, exchanged, cleared>>

\* POST /auth/logout.
Logout_Auth(s, scheme, tok, ok) == Guarded(s, "Logout", "lo_clear", scheme, tok, ok)

\* authService.Logout: UpdateRefreshToken(userID, "").
Logout_Clear(s, ok) ==
    /\ req[s].pc = "lo_clear"
    /\ IF ok
       THEN /\ users' = UpdateRefreshToken(users, req[s].user.id, EmptyTok)
            /\ Goto(s, [req[s] EXCEPT !.pc = "done", !.resp = SuccessResponse(StatusOK)])
            /\ cleared' = cleared \cup TokensOf(issued, req[s].user.id)
       ELSE /\ Goto(s, [req[s] EXCEPT !.pc = "done",
                                      !.resp = ErrorResponse(errs, "ErrInternal")])
            /\ UNCHANGED <<users, cleared>>
    /\ UNCHANGED <<now, cfg, limiter, posts, errs, nreq, issued, exchanged>>

\* GET /auth/me.
Me_Auth(s, scheme, tok, ok) == Guarded(s, "Me", "me", scheme, tok, ok)

\* AuthHandler.Me answers with the user of the context.
Me(s) ==
    /\ req[s].pc = "me"
    /\ Goto(s, [req[s] EXCEPT !.pc = "done", !.resp = SuccessResponse(StatusOK)])
    /\ UNCHANGED <<users, now, cfg, limiter, posts, errs, nreq, issued, exchanged, cleared>>

\* POST /auth/change-password.
ChangePassword_Auth(s, scheme, tok, ok) ==
    Guarded(s, "ChangePassword", "cp_find", scheme, tok, ok)

\* The handler binds the request body; authService.ChangePassword: FindByID
\* and CheckPassword.  An error of the store that is no AppError is answered
\* as ErrInternal by the handler.
ChangePassword_Find(s, old, new, ok) ==
    /\ req[s].pc = "cp_find"
    /\ LET user == FindByID(users, req[s].user.id) IN
       IF ~ok
       THEN Goto(s, [req[s] EXCEPT !.pc = "done", !.old = old,
                                   !.resp = ErrorResponse(errs, "ErrInternal")])
       ELSE IF user = NoUser
       THEN Goto(s, [req[s] EXCEPT !.pc = "done", !.old = old,
                                   !.resp = ErrorResponse(errs, "ErrUserNotFound")])
       ELSE IF ~CheckPassword(user, old)
       THEN Goto(s, [req[s] EXCEPT !.pc = "done", !.old = old,
                                   !.resp = ErrorResponse(errs, "ErrInvalidPassword")])
       ELSE Goto(s, [req[s] EXCEPT !.pc = "cp_update", !.old = old, !.pw = new])
    /\ UNCHANGED <<users, now, cfg, limiter, posts, errs, nreq, issued, exchanged, cleared>>

\* UpdatePassword with the bcrypt hash of the new password.
ChangePassword_Update(s, ok) ==
    /\ req[s].pc = "cp_update"
    /\ IF ok
       THEN /\ users' = UpdatePassword(users, req[s].user.id, GenerateFromPassword(req[s].pw))
            /\ Goto(s, [req[s] EXCEPT !.pc = "cp_clear"])
       ELSE /\ users' = users
            /\ Goto(s, [req[s] EXCEPT !.pc = "done", !.pw = "",
                                      !.resp = ErrorResponse(errs, "ErrInternal")])
    /\ UNCHANGED <<now, cfg, limiter, posts, errs, nreq, issued, exchanged, cleared>>

\* UpdateRefreshToken(userID, ""), whose error is logged only, then success.
ChangePassword_Clear(s, ok) ==
    /\ req[s].pc = "cp_clear"
    /\ users' = IF ok THEN UpdateRefreshToken(users, req[s].user.id, EmptyTok) ELSE users
    /\ Goto(s, [req[s] EXCEPT !.pc = "done", !.pw = "", !.resp = SuccessResponse(StatusOK)])
    /\ UNCHANGED <<now, cfg, limiter, posts, errs, nreq, issued, exchanged, cleared>>

\* ------------------------------------------------------- optional routes
\* GET /posts/:id and the other routes behind OptionalAuthMiddleware.
Optional_Auth(s, scheme, tok, ok) ==
    /\ Receive(s)
    /\ IF ok THEN TRUE ELSE ReachesStore(scheme, tok, now)
    /\ LET out == OptionalAuthMiddleware(scheme, tok, users, now, errs, ok) IN
       /\ errs' = out.errs
       /\ IF out.abort
          THEN Goto(s, [Answered("Optional", out.resp) EXCEPT !.scheme = scheme, !.tok = tok,
                                                              !.lookups = out.lookups])
          ELSE Goto(s, [Idle EXCEPT !.pc = "opt", !.op = "Optional",
                                    !.scheme = scheme, !.tok = tok, !.user = out.user,
                                    !.claims = out.claims, !.next = out.next,
                                    !.lookups = out.lookups])
    /\ UNCHANGED <<users, now, cfg, limiter, posts, issued, exchanged, cleared>>

\* The handler behind the guard answers.
Optional(s) ==
    /\ req[s].pc = "opt"
    /\ Goto(s, [req[s] EXCEPT !.pc = "done", !.resp = SuccessResponse(StatusOK)])
    /\ UNCHANGED <<users, now, cfg, limiter, posts, errs, nreq, issued, exchanged, cleared>>

\* ---------------------------------------------------------- userService
\* The calls an administrator makes through the admin routes, taken at the
\* service.
\* userService.UpdateStatus: FindByID.
UpdateStatus_Find(s, id, status, ok) ==
    /\ Receive(s)
    /\ IF ~ok THEN Goto(s, Failed("UpdateStatus", errs, "ErrInternal"))
       ELSE IF FindByID(users, id) = NoUser
       THEN Goto(s, Failed("UpdateStatus", errs, "ErrUserNotFound"))
       ELSE Goto(s, [Idle EXCEPT !.pc = "us_write", !.op = "UpdateStatus",
                                 !.id = id, !.status = status])
    /\ UNCHANGED <<users, now, cfg, limiter, posts, errs, issued, exchanged, cleared>>

\* userRepository.UpdateStatus.
UpdateStatus_Write(s, ok) ==
    /\ req[s].pc = "us_write"
    /\ IF ok
       THEN /\ users' = UpdateStatus(users, req[s].id, req[s].status)
            /\ Goto(s, Answered("UpdateStatus", SuccessResponse(StatusOK)))
       ELSE /\ users' = users
            /\ Goto(s, Failed("UpdateStatus", errs, "ErrInternal"))
    /\ UNCHANGED <<now, cfg, limiter, posts, errs, nreq, issued, exchanged, cleared>>

\* userService.Delete: FindByID.
Delete_Find(s, id, ok) ==
    /\ Receive(s)
    /\ IF ~ok THEN Goto(s, Failed("Delete", errs, "ErrInternal"))
       ELSE IF FindByID(users, id) = NoUser
       THEN Goto(s, Failed("Delete", errs, "ErrUserNotFound"))
       ELSE Goto(s, [Idle EXCEPT !.pc = "del_write", !.op = "Delete", !.id = id])
    /\ UNCHANGED <<users, now, cfg, limiter, posts, errs, issued, exchanged, cleared>>

\* userRepository.Delete.
Delete_Write(s, ok) ==
    /\ req[s].pc = "del_write"
    /\ IF ok
       THEN /\ users' = Delete(users, req[s].id)
            /\ Goto(s, Answered("Delete", SuccessResponse(StatusOK)))
       ELSE /\ users' = users
            /\ Goto(s, Failed("Delete", errs, "ErrInternal"))
    /\ UNCHANGED <<now, cfg, limiter, posts, errs, nreq, issued, exchanged, cleared>>

\* userService.UpdateRole: FindByID.
UpdateRole_Find(s, id, role, ok) ==
    /\ Receive(s)
    /\ IF ~ok THEN Goto(s, Failed("UpdateRole", errs, "ErrInternal"))
       ELSE IF FindByID(users, id) = NoUser
       THEN Goto(s, Failed("UpdateRole", errs, "ErrUserNotFound"))
       ELSE Goto(s, [Idle EXCEPT !.pc = "ur_write", !.op = "UpdateRole",
                                 !.id = id, !.role = role])
    /\ UNCHANGED <<users, now, cfg, limiter, posts, errs, issued, exchanged, cleared>>

\* userRepository.UpdateRole.
UpdateRole_Write(s, ok) ==
    /\ req[s].pc = "ur_write"
    /\ IF ok
       THEN /\ users' = UpdateRole(users, req[s].id, req[s].role)
            /\ Goto(s, Answered("UpdateRole", SuccessResponse(StatusOK)))
       ELSE /\ users' = users
            /\ Goto(s, Failed("UpdateRole", errs, "ErrInternal"))
    /\ UNCHANGED <<now, cfg, limiter, posts, errs, nreq, issued, exchanged, cleared>>

\* ----------------------------------------------------------- admin routes
\* A variant of the handler's self-demotion check that lets every request
\* through.
SelfDemotion_Never(currentUser, id, role) == FALSE

\* UserHandler.UpdateRole: the caller changes their own role to a role other
\* than admin.
SelfDemotion(currentUser, id, role) == currentUser.id = id /\ role # RoleAdmin

\* PATCH /users/:id/role: AuthMiddleware, RequireAdmin, then the handler up
\* to its call of userService.UpdateRole.  The body names one of the valid
\* roles.
UpdateRole_Route(s, scheme, tok, id, role, ok) ==
    /\ Receive(s)
    /\ IF ok THEN TRUE ELSE ReachesStore(scheme, tok, now)
    /\ LET out == AuthMiddleware(scheme, tok, users, now, errs, ok)
           gate == RequireAdmin(out.user)
           ctx == [Idle EXCEPT !.op = "UserHandler.UpdateRole", !.scheme = scheme,
                               !.tok = tok, !.user = out.user, !.claims = out.claims,
                               !.lookups = out.lookups, !.id = id, !.role = role]
       IN
       IF out.abort
       THEN /\ errs' = out.errs
            /\ Goto(s, [ctx EXCEPT !.pc = "done", !.resp = out.resp])
       ELSE IF gate.abort
       THEN /\ errs' = out.errs
            /\ Goto(s, [ctx EXCEPT !.pc = "done", !.next = out.next, !.resp = gate.resp])
       ELSE IF SelfDemotion(out.user, id, role)
       THEN /\ errs' = WithDetails(out.errs, "ErrBadRequest", "You cannot change your own role")
            /\ Goto(s, [ctx EXCEPT !.pc = "done", !.next = out.next + 1,
                                   !.resp = ErrorResponse(errs', "ErrBadRequest")])
       ELSE /\ errs' = out.errs
            /\ Goto(s, [ctx EXCEPT !.pc = "ur_find", !.next = out.next + 1])
    /\ UNCHANGED <<users, now, cfg, limiter, posts, issued, exchanged, cleared>>

\* userService.UpdateRole behind the handler: FindByID.
UpdateRole_Verify(s, ok) ==
    /\ req[s].pc = "ur_find"
    /\ IF ~ok
       THEN Goto(s, [req[s] EXCEPT !.pc = "done", !.resp = ErrorResponse(errs, "ErrInternal")])
       ELSE IF FindByID(users, req[s].id) = NoUser
       THEN Goto(s, [req[s] EXCEPT !.pc = "done",
                                   !.resp = ErrorResponse(errs, "ErrUserNotFound")])
       ELSE Goto(s, [req[s] EXCEPT !.pc = "ur_write"])
    /\ UNCHANGED <<users, now, cfg, limiter, posts, errs, nreq, issued, exchanged, cleared>>

\* GET /admin/health/info: AuthMiddleware, then RequireAdmin, then the
\* handler.  RequireAdmin reads the context only, so the two middlewares are
\* one step; a request RequireAdmin aborts keeps what AuthMiddleware attached.
Admin_Auth(s, scheme, tok, ok) ==
    /\ Receive(s)
    /\ IF ok THEN TRUE ELSE ReachesStore(scheme, tok, now)
    /\ LET out == AuthMiddleware(scheme, tok, users, now, errs, ok)
           gate == RequireAdmin(out.user)
           ctx == [Idle EXCEPT !.op = "AdminInfo", !.scheme = scheme, !.tok = tok,
                               !.user = out.user, !.claims = out.claims,
                               !.lookups = out.lookups]
       IN
       /\ errs' = out.errs
       /\ IF out.abort
          THEN Goto(s, [ctx EXCEPT !.pc = "done", !.resp = out.resp])
          ELSE IF gate.abort
          THEN Goto(s, [ctx EXCEPT !.pc = "done", !.next = out.next, !.resp = gate.resp])
          ELSE Goto(s, [ctx EXCEPT !.pc = "ad_info", !.next = out.next + 1])
    /\ UNCHANGED <<users, now, cfg, limiter, posts, issued, exchanged, cleared>>

\* HealthHandler.Info answers.
AdminInfo(s) ==
    /\ req[s].pc = "ad_info"
    /\ Goto(s, [req[s] EXCEPT !.pc = "done", !.resp = SuccessResponse(StatusOK)])
    /\ UNCHANGED <<users, now, cfg, limiter, posts, errs, nreq, issued, exchanged, cleared>>

\* ----------------------------------------------------------------- posts
\* response.NotFound: 404 with CodeNotFound and the caller's message.
ResponseNotFound(message) ==
    [status |-> StatusNotFound, code |-> CodeNotFound, message |-> message, details |-> ""]

\* Post.IsPublished.
IsPublished(post) == post.status = PostStatusPublished

\* User.IsAdmin.
IsAdmin(u) == u.role = RoleAdmin

\* The ids of the rows a query sees: gorm adds deleted_at IS NULL.
LivePosts(ps) == {i \in 1..Len(ps) : ~ps[i].deleted}

\* postRepository.FindWithAuthor: the row, or NoPost for ErrNotFound.
FindWithAuthor(ps, id) == IF id \in LivePosts(ps) THEN ps[id] ELSE NoPost

\* postRepository.FindByID: the row, or NoPost for ErrNotFound.
FindPostByID(ps, id) == IF id \in LivePosts(ps) THEN ps[id] ELSE NoPost

\* postRepository.FindBySlug.
FindBySlug(ps, slug) ==
    IF \E i \in LivePosts(ps) : ps[i].slug = slug
    THEN ps[CHOOSE i \in LivePosts(ps) : ps[i].slug = slug]
    ELSE NoPost

\* postRepository.IncrementViewCount: view_count = view_count + 1.
IncrementViewCount(ps, id) ==
    IF id \in LivePosts(ps) THEN [ps EXCEPT ![id].viewCount = @ + 1] ELSE ps

\* BaseRepository.Update: Save writes every column of the entity.  For a row
\* deleted since it was read the UPDATE matches nothing; gorm then either
\* leaves it at that or inserts the entity over the row (upsert), depending
\* on its version.
Save(ps, post, upsert) ==
    IF post.id \in LivePosts(ps) \/ (upsert /\ post.id \in 1..Len(ps))
    THEN [ps EXCEPT ![post.id] = post]
    ELSE ps

\* BaseRepository.Delete: the soft delete.
DeletePost(ps, id) == IF id \in LivePosts(ps) THEN [ps EXCEPT ![id].deleted = TRUE] ELSE ps

\* A variant of the services' check that lets every caller through.
Permitted_Anyone(post, userID, isAdmin) == TRUE

\* postService.Update and Delete: the check of ownership or admin.
Permitted(post, userID, isAdmin) == ~(post.userID # userID /\ ~isAdmin)

\* A variant of the handlers' check that shows an unpublished post to every
\* authenticated caller.
Denied_OnlyAnonymous(post, exists, user) == ~IsPublished(post) /\ ~exists

\* PostHandler.GetByID and GetBySlug: the post is not published and the
\* request has no user, or a user who is neither the owner nor an admin.
Denied(post, exists, user) ==
    /\ ~IsPublished(post)
    /\ (~exists \/ (post.userID # user.id /\ ~IsAdmin(user)))

\* OptionalAuthMiddleware in front of a post handler, which reads the id or
\* the slug of the path.
PostRoute(s, op, scheme, tok, id, slug, ok) ==
    /\ Receive(s)
    /\ IF ok THEN TRUE ELSE ReachesStore(scheme, tok, now)
    /\ LET out == OptionalAuthMiddleware(scheme, tok, users, now, errs, ok) IN
       /\ errs' = out.errs
       /\ Goto(s, [Idle EXCEPT !.pc = "gp_find", !.op = op, !.scheme = scheme, !.tok = tok,
                               !.user = out.user, !.claims = out.claims,
                               !.next = out.next, !.lookups = out.lookups,
                               !.id = id, !.slug = slug])
    /\ UNCHANGED <<users, now, cfg, limiter, posts, issued, exchanged, cleared>>

\* What the handler does with the post the service returned: an error of
\* the store that is no AppError is answered as ErrInternal.
Found(s, post, ok) ==
    IF ~ok
    THEN /\ Goto(s, [req[s] EXCEPT !.pc = "done", !.resp = ErrorResponse(errs, "ErrInternal")])
         /\ errs' = errs
    ELSE IF post = NoPost
    THEN /\ errs' = WithDetails(errs, "ErrNotFound", "Post not found")
         /\ Goto(s, [req[s] EXCEPT !.pc = "done", !.resp = ErrorResponse(errs', "ErrNotFound")])
    ELSE /\ Goto(s, [req[s] EXCEPT !.pc = "gp_view", !.post = post])
         /\ errs' = errs

\* The permission check, then IncrementViews, whose error is dropped, and
\* the response.
View(s, op, ok) ==
    /\ req[s].pc = "gp_view"
    /\ req[s].op = op
    /\ IF Denied(req[s].post, req[s].user # NoUser, req[s].user)
       THEN /\ Goto(s, [req[s] EXCEPT !.pc = "done", !.resp = ResponseNotFound("Post not found")])
            /\ posts' = posts
       ELSE /\ posts' = IF ok THEN IncrementViewCount(posts, req[s].post.id) ELSE posts
            /\ Goto(s, [req[s] EXCEPT !.pc = "done", !.resp = SuccessResponse(StatusOK)])
    /\ UNCHANGED <<users, now, cfg, limiter, errs, nreq, issued, exchanged, cleared>>

\* GET /posts/:id.
GetByID_Auth(s, scheme, tok, id, ok) ==
    PostRoute(s, "GetByID", scheme, tok, id, "", ok)

\* postService.GetByID.
GetByID_Find(s, ok) ==
    /\ req[s].pc = "gp_find"
    /\ req[s].op = "GetByID"
    /\ Found(s, FindWithAuthor(posts, req[s].id), ok)
    /\ UNCHANGED <<users, now, cfg, limiter, posts, nreq, issued, exchanged, cleared>>

GetByID_View(s, ok) == View(s, "GetByID", ok)

\* GET /posts/slug/:slug.
GetBySlug_Auth(s, scheme, tok, slug, ok) ==
    PostRoute(s, "GetBySlug", scheme, tok, 0, slug, ok)

\* postService.GetBySlug.
GetBySlug_Find(s, ok) ==
    /\ req[s].pc = "gp_find"
    /\ req[s].op = "GetBySlug"
    /\ Found(s, FindBySlug(posts, req[s].slug), ok)
    /\ UNCHANGED <<users, now, cfg, limiter, posts, nreq, issued, exchanged, cleared>>

GetBySlug_View(s, ok) == View(s, "GetBySlug", ok)

\* PUT /posts/:id and DELETE /posts/:id run behind AuthMiddleware; the
\* handler passes user.ID and user.IsAdmin() of the user of the context.
\* FindByID and the check: ErrNotFound with details for no row, any other
\* store error answered as ErrInternal, ErrForbidden for a caller who is
\* neither the owner nor an admin.
Checked(s, op, first, id, caller, post, ok) ==
    /\ Receive(s)
    /\ IF ~ok
       THEN /\ Goto(s, [Failed(op, errs, "ErrInternal") EXCEPT !.id = id, !.user = caller])
            /\ errs' = errs
       ELSE IF FindPostByID(posts, id) = NoPost
       THEN /\ errs' = WithDetails(errs, "ErrNotFound", "Post not found")
            /\ Goto(s, [Failed(op, errs', "ErrNotFound") EXCEPT !.id = id, !.user = caller])
       ELSE IF ~Permitted(FindPostByID(posts, id), caller.id, IsAdmin(caller))
       THEN /\ Goto(s, [Failed(op, errs, "ErrForbidden") EXCEPT !.id = id, !.user = caller])
            /\ errs' = errs
       ELSE /\ Goto(s, [Idle EXCEPT !.pc = first, !.op = op, !.id = id, !.user = caller,
                                    !.post = post])
            /\ errs' = errs
    /\ UNCHANGED <<users, now, cfg, limiter, posts, issued, exchanged, cleared>>

\* postService.Update with a new status: FindByID, the check, the fields.
Update_Find(s, id, caller, status, ok) ==
    Checked(s, "Update", "up_save", id, caller,
            [FindPostByID(posts, id) EXCEPT !.status = status], ok)

\* postRepository.Update saves the row as read, with the new status; then
\* FindWithAuthor, whose error is returned.
Update_Save(s, ok, upsert) ==
    /\ req[s].pc = "up_save"
    /\ IF ok
       THEN /\ posts' = Save(posts, req[s].post, upsert)
            /\ IF FindWithAuthor(posts', req[s].id) = NoPost
               THEN /\ errs' = WithDetails(errs, "ErrNotFound", "Post not found")
                    /\ Goto(s, [req[s] EXCEPT !.pc = "done",
                                              !.resp = ErrorResponse(errs', "ErrNotFound")])
               ELSE /\ Goto(s, [req[s] EXCEPT !.pc = "done",
                                              !.resp = SuccessResponse(StatusOK)])
                    /\ errs' = errs
       ELSE /\ posts' = posts
            /\ Goto(s, [req[s] EXCEPT !.pc = "done",
                                      !.resp = ErrorResponse(errs, "ErrInternal")])
            /\ errs' = errs
    /\ UNCHANGED <<users, now, cfg, limiter, nreq, issued, exchanged, cleared>>

\* postService.Delete: FindByID and the check.
DeletePost_Find(s, id, caller, ok) ==
    Checked(s, "DeletePost", "dp_write", id, caller, FindPostByID(posts, id), ok)

\* postRepository.Delete; the handler answers 204.
DeletePost_Write(s, ok) ==
    /\ req[s].pc = "dp_write"
    /\ IF ok
       THEN /\ posts' = DeletePost(posts, req[s].id)
            /\ Goto(s, [req[s] EXCEPT !.pc = "done",
                                      !.resp = SuccessResponse(StatusNoContent)])
       ELSE /\ posts' = posts
            /\ Goto(s, [req[s] EXCEPT !.pc = "done",
                                      !.resp = ErrorResponse(errs, "ErrInternal")])
    /\ UNCHANGED <<users, now, cfg, limiter, errs, nreq, issued, exchanged, cleared>>

\* ---------------------------------------------------------- rate limiter
\* The goroutines that call Allow, and the cleanup goroutine.
Clients == {"client-1", "client-2"}
Sweeper == "cleanup"
Procs == Clients \cup {Sweeper}
Unlocked == ""

\* The keys of the requests map: c.ClientIP() or the user's id.
Keys == {"10.0.0.1", "10.0.0.2"}

NoInfo == [count |-> 0, resetTime |-> 0]

\* The locals of a goroutine: the key, time.Now() as read, the map lookup and
\* the value returned by Allow.
IdleProc == [pc |-> "idle", key |-> "", now |-> 0, exists |-> FALSE, info |-> NoInfo,
             ret |-> FALSE]

\* A variant of the mutex that is granted while another goroutine holds it.
TryLock_Always(m) == TRUE

\* rl.mu.Lock() returns when no goroutine holds the lock.
TryLock(m) == m = Unlocked

\* A variant of the comparison that keeps an entry for one more window.
Expired_Late(info, t) == t > info.resetTime + Window

\* now.After(info.resetTime).
Expired(info, t) == t > info.resetTime

\* A variant of the cleanup loop that deletes every entry.
Sweep_All(m, t) == [k \in {} |-> NoInfo]

\* The loop of cleanup: delete(rl.requests, key) for the expired entries.
Sweep(m, t) == [k \in {k \in DOMAIN m : ~Expired(m[k], t)} |-> m[k]]

\* rl.requests[key] = info.
Put(m, key, info) == [k \in DOMAIN m \cup {key} |-> IF k = key THEN info ELSE m[k]]

\* The calls admitted for a key, by window: a call admitted at time t after
\* the reset time of the window opened last opens a window that lasts until
\* t + Window; any other admitted call is one more of the open window.
Admit(a, key, t) ==
    IF key \in DOMAIN a /\ t <= a[key].resetTime
    THEN Put(a, key, [a[key] EXCEPT !.count = @ + 1])
    ELSE Put(a, key, [count |-> 1, resetTime |-> t + Window])

\* NewRateLimiter: an empty map, the lock free, no call in progress.
NewRateLimiter ==
    /\ requests = [k \in {} |-> NoInfo]
    /\ mu = Unlocked
    /\ lim = [p \in Procs |-> IdleProc]
    /\ ncalls = 0
    /\ admits = [k \in {} |-> NoInfo]

\* Allow: rl.mu.Lock().
Allow_Lock(p, key) ==
    /\ lim[p].pc = "idle"
    /\ ncalls < MaxCalls
    /\ TryLock(mu)
    /\ mu' = p
    /\ lim' = [lim EXCEPT ![p] = [IdleProc EXCEPT !.pc = "al_read", !.key = key]]
    /\ ncalls' = ncalls + 1
    /\ UNCHANGED <<auth, posts, now, cfg, requests, admits>>

\* now := time.Now(); info, exists := rl.requests[key].
Allow_Read(p) ==
    /\ lim[p].pc = "al_read"
    /\ lim' = [lim EXCEPT ![p].pc = "al_write",
                          ![p].now = now,
                          ![p].exists = lim[p].key \in DOMAIN requests,
                          ![p].info = IF lim[p].key \in DOMAIN requests
                                      THEN requests[lim[p].key] ELSE NoInfo]
    /\ UNCHANGED <<auth, posts, now, cfg, requests, mu, ncalls, admits>>

\* The rest of the body of Allow: a new entry, a refusal, or info.count++.
Allow_Write(p) ==
    /\ lim[p].pc = "al_write"
    /\ LET l == lim[p] IN
       IF ~l.exists \/ Expired(l.info, l.now)
       THEN /\ requests' = Put(requests, l.key, [count |-> 1, resetTime |-> l.now + Window])
            /\ lim' = [lim EXCEPT ![p].pc = "al_unlock", ![p].ret = TRUE]
            /\ admits' = Admit(admits, l.key, l.now)
       ELSE IF l.info.count >= Limit
       THEN /\ lim' = [lim EXCEPT ![p].pc = "al_unlock", ![p].ret = FALSE]
            /\ UNCHANGED <<requests, admits>>
       ELSE /\ requests' = Put(requests, l.key, [l.info EXCEPT !.count = @ + 1])
            /\ lim' = [lim EXCEPT ![p].pc = "al_unlock", ![p].ret = TRUE]
            /\ admits' = Admit(admits, l.key, l.now)
    /\ UNCHANGED <<auth, posts, now, cfg, mu, ncalls>>

\* The deferred rl.mu.Unlock(); Allow returns.
Allow_Unlock(p) ==
    /\ lim[p].pc = "al_unlock"
    /\ mu' = Unlocked
    /\ lim' = [lim EXCEPT ![p].pc = "idle"]
    /\ UNCHANGED <<auth, posts, now, cfg, requests, ncalls, admits>>

\* cleanup: the ticker fires; rl.mu.Lock().
Cleanup_Lock ==
    /\ lim[Sweeper].pc = "idle"
    /\ TryLock(mu)
    /\ mu' = Sweeper
    /\ lim' = [lim EXCEPT ![Sweeper].pc = "cl_sweep"]
    /\ UNCHANGED <<auth, posts, now, cfg, requests, ncalls, admits>>

\* now := time.Now() and the loop over the map.
Cleanup_Sweep ==
    /\ lim[Sweeper].pc = "cl_sweep"
    /\ requests' = Sweep(requests, now)
    /\ lim' = [lim EXCEPT ![Sweeper].pc = "cl_unlock", ![Sweeper].now = now]
    /\ UNCHANGED <<auth, posts, now, cfg, mu, ncalls, admits>>

\* rl.mu.Unlock().
Cleanup_Unlock ==
    /\ lim[Sweeper].pc = "cl_unlock"
    /\ mu' = Unlocked
    /\ lim' = [lim EXCEPT ![Sweeper].pc = "idle"]
    /\ UNCHANGED <<auth, posts, now, cfg, requests, ncalls, admits>>

\* The clock of the rate limiter.
LimiterTick ==
    /\ now < LimiterTime
    /\ now' = now + 1
    /\ UNCHANGED <<auth, limiter, posts, cfg>>

\* -------------------------------------------------------- specification
Init ==
    /\ users = <<>>
    /\ now = 0
    /\ cfg = Load
    /\ req = [s \in Slots |-> Idle]
    /\ errs = [e \in ErrNames |-> ""]
    /\ nreq = 0
    /\ issued = {}
    /\ exchanged = {}
    /\ cleared = {}
    /\ NewRateLimiter
    /\ posts = <<>>

Next ==
    \/ Tick
    \/ \E s \in Slots : Respond(s)
    \/ \E s \in Slots, email \in Emails, pw \in RegisterPasswords, ok \in BOOLEAN :
          Register_Exists(s, email, pw, ok)
    \/ \E s \in Slots, ok \in BOOLEAN : Register_Create(s, ok)
    \/ \E s \in Slots, ok \in BOOLEAN : Register_Save(s, ok)
    \/ \E s \in Slots, email \in Emails, pw \in Passwords, ok \in BOOLEAN :
          Login_Find(s, email, pw, ok)
    \/ \E s \in Slots, ok \in BOOLEAN : Login_Save(s, ok)
    \/ \E s \in Slots, tok \in Presentable \ {EmptyTok}, ok \in BOOLEAN :
          RefreshTokens_Find(s, tok, ok)
    \/ \E s \in Slots, ok \in BOOLEAN : RefreshTokens_Save(s, ok)
    \/ \E s \in Slots, h \in Headers, ok \in BOOLEAN : Logout_Auth(s, h[1], h[2], ok)
    \/ \E s \in Slots, ok \in BOOLEAN : Logout_Clear(s, ok)
    \/ \E s \in Slots, h \in Headers, ok \in BOOLEAN : Me_Auth(s, h[1], h[2], ok)
    \/ \E s \in Slots : Me(s)
    \/ \E s \in Slots, h \in Headers, ok \in BOOLEAN : ChangePassword_Auth(s, h[1], h[2], ok)
    \/ \E s \in Slots, old \in Passwords, new \in Passwords, ok \in BOOLEAN :
          ChangePassword_Find(s, old, new, ok)
    \/ \E s \in Slots, ok \in BOOLEAN : ChangePassword_Update(s, ok)
    \/ \E s \in Slots, ok \in BOOLEAN : ChangePassword_Clear(s, ok)
    \/ \E s \in Slots, h \in Headers, ok \in BOOLEAN : Optional_Auth(s, h[1], h[2], ok)
    \/ \E s \in Slots : Optional(s)
    \/ \E s \in Slots, id \in UserIds, status \in StatusInputs, ok \in BOOLEAN :
          UpdateStatus_Find(s, id, status, ok)
    \/ \E s \in Slots, ok \in BOOLEAN : UpdateStatus_Write(s, ok)
    \/ \E s \in Slots, id \in UserIds, ok \in BOOLEAN : Delete_Find(s, id, ok)
    \/ \E s \in Slots, ok \in BOOLEAN : Delete_Write(s, ok)
    \/ \E s \in Slots, id \in UserIds, role \in RoleInputs, ok \in BOOLEAN :
          UpdateRole_Find(s, id, role, ok)
    \/ \E s \in Slots, ok \in BOOLEAN : UpdateRole_Write(s, ok)
    \/ \E s \in Slots, h \in Headers, ok \in BOOLEAN : Admin_Auth(s, h[1], h[2], ok)
    \/ \E s \in Slots : AdminInfo(s)

Spec == Init /\ [][Next]_vars

\* ------------------------------------------------- one identity's session
\* The row of the identity a Register call for a@x.com created at second 0.
Registered ==
    LET user == Create(<<>>, [NoUser EXCEPT !.email = "a@x.com",
                                             !.password.text = "Passw0rd!",
                                             !.role = RoleUser,
                                             !.status = StatusActive])[1]
    IN [user EXCEPT !.refreshToken = generateTokenPair(user, 0).refresh]

\* The state Spec is in after that Register call was answered.
InitSession ==
    /\ users = <<Registered>>
    /\ now = 0
    /\ cfg = Load
    /\ req = [s \in Slots |-> Idle]
    /\ errs = [e \in ErrNames |-> ""]
    /\ nreq = 0
    /\ issued = {Registered.refreshToken}
    /\ exchanged = {}
    /\ cleared = {}
    /\ NewRateLimiter
    /\ posts = <<>>

\* The clock, over a period longer than the refresh token's life.
Elapse ==
    /\ now < SessionTime
    /\ now' = now + 1
    /\ UNCHANGED <<auth, limiter, posts, cfg>>

\* The requests of the identity's session and the administrator's status
\* updates.
NextSession ==
    \/ Elapse
    \/ \E s \in Slots : Respond(s)
    \/ \E s \in Slots, email \in Emails, pw \in Passwords, ok \in BOOLEAN :
          Login_Find(s, email, pw, ok)
    \/ \E s \in Slots, ok \in BOOLEAN : Login_Save(s, ok)
    \/ \E s \in Slots, tok \in Presentable \ {EmptyTok}, ok \in BOOLEAN :
          RefreshTokens_Find(s, tok, ok)
    \/ \E s \in Slots, ok \in BOOLEAN : RefreshTokens_Save(s, ok)
    \/ \E s \in Slots, h \in Headers, ok \in BOOLEAN : Logout_Auth(s, h[1], h[2], ok)
    \/ \E s \in Slots, ok \in BOOLEAN : Logout_Clear(s, ok)
    \/ \E s \in Slots, h \in Headers, ok \in BOOLEAN : Me_Auth(s, h[1], h[2], ok)
    \/ \E s \in Slots : Me(s)
    \/ \E s \in Slots, id \in UserIds, status \in StatusInputs, ok \in BOOLEAN :
          UpdateStatus_Find(s, id, status, ok)
    \/ \E s \in Slots, ok \in BOOLEAN : UpdateStatus_Write(s, ok)

SpecSession == InitSession /\ [][NextSession]_vars

\* ------------------------------------------------- passwords of any length
\* Register, Login and ChangePassword with every password the request
\* bindings accept, the 60-character one included.
NextPasswords ==
    \/ \E s \in Slots : Respond(s)
    \/ \E s \in Slots, email \in Emails, pw \in AcceptedPasswords, ok \in BOOLEAN :
          Register_Exists(s, email, pw, ok)
    \/ \E s \in Slots, ok \in BOOLEAN : Register_Create(s, ok)
    \/ \E s \in Slots, ok \in BOOLEAN : Register_Save(s, ok)
    \/ \E s \in Slots, email \in Emails, pw \in AcceptedPasswords, ok \in BOOLEAN :
          Login_Find(s, email, pw, ok)
    \/ \E s \in Slots, ok \in BOOLEAN : Login_Save(s, ok)
    \/ \E s \in Slots, h \in Headers, ok \in BOOLEAN : ChangePassword_Auth(s, h[1], h[2], ok)
    \/ \E s \in Slots, old \in AcceptedPasswords, new \in AcceptedPasswords, ok \in BOOLEAN :
          ChangePassword_Find(s, old, new, ok)
    \/ \E s \in Slots, ok \in BOOLEAN : ChangePassword_Update(s, ok)
    \/ \E s \in Slots, ok \in BOOLEAN : ChangePassword_Clear(s, ok)

SpecPasswords == Init /\ [][NextPasswords]_vars

\* ------------------------------------------------- an administrator's calls
\* The row of the identity registered at second 0 after UpdateRole made it
\* an admin.
Administrator == [Registered EXCEPT !.role = RoleAdmin]

InitAdmin ==
    /\ users = <<Administrator>>
    /\ now = 0
    /\ cfg = Load
    /\ req = [s \in Slots |-> Idle]
    /\ errs = [e \in ErrNames |-> ""]
    /\ nreq = 0
    /\ issued = {Administrator.refreshToken}
    /\ exchanged = {}
    /\ cleared = {}
    /\ NewRateLimiter
    /\ posts = <<>>

\* Registrations and the requests to PATCH /users/:id/role.
NextAdmin ==
    \/ \E s \in Slots : Respond(s)
    \/ \E s \in Slots, email \in Emails, pw \in RegisterPasswords, ok \in BOOLEAN :
          Register_Exists(s, email, pw, ok)
    \/ \E s \in Slots, ok \in BOOLEAN : Register_Create(s, ok)
    \/ \E s \in Slots, ok \in BOOLEAN : Register_Save(s, ok)
    \/ \E s \in Slots, h \in Headers, id \in UserIds, role \in RoleRequests, ok \in BOOLEAN :
          UpdateRole_Route(s, h[1], h[2], id, role, ok)
    \/ \E s \in Slots, ok \in BOOLEAN : UpdateRole_Verify(s, ok)
    \/ \E s \in Slots, ok \in BOOLEAN : UpdateRole_Write(s, ok)

SpecAdmin == InitAdmin /\ [][NextAdmin]_vars

\* ------------------------------------------------- the rate limiter alone
\* Concurrent Allow calls, the cleanup goroutine and the clock.
NextLimiter ==
    \/ LimiterTick
    \/ \E p \in Clients, key \in Keys : Allow_Lock(p, key)
    \/ \E p \in Clients : Allow_Read(p)
    \/ \E p \in Clients : Allow_Write(p)
    \/ \E p \in Clients : Allow_Unlock(p)
    \/ Cleanup_Lock
    \/ Cleanup_Sweep
    \/ Cleanup_Unlock

SpecLimiter == Init /\ [][NextLimiter]_vars

\* ------------------------------------------------------- reading the posts
\* The users table after Register of the given email at second 0 and, for
\* an admin, UpdateRole.
WithAccount(us, email, role) ==
    LET created == Create(us, [NoUser EXCEPT !.email = email,
                                             !.password.text = "Passw0rd!",
                                             !.role = RoleUser,
                                             !.status = StatusActive])
        user == created[Len(created)]
    IN [created EXCEPT ![Len(created)] =
            [user EXCEPT !.role = role,
                         !.refreshToken = generateTokenPair(user, 0).refresh]]

\* An author, an admin and a reader.
Accounts ==
    WithAccount(WithAccount(WithAccount(<<>>, "a@x.com", RoleUser),
                            "b@x.com", RoleAdmin),
                "c@x.com", RoleUser)

\* The author, as the user of the context.
Author == Accounts[1]

\* A draft and a published post of the author.
Posted ==
    <<[id |-> 1, slug |-> "draft-post", userID |-> 1, status |-> PostStatusDraft,
       viewCount |-> 0, deleted |-> FALSE],
      [id |-> 2, slug |-> "first-post", userID |-> 1, status |-> PostStatusPublished,
       viewCount |-> 0, deleted |-> FALSE]>>

\* The ids and slugs of the requests: those of the posts and one of no post.
PostIds == 1..(Len(Posted) + 1)
Slugs == {Posted[i].slug : i \in 1..Len(Posted)} \cup {"no-such-post"}
PostStatusInputs == {PostStatusDraft, PostStatusPublished}

\* The headers of the requests for a post: none, or "Bearer " followed by a
\* token a client was given.
PostHeaders == {<<"", EmptyTok>>} \cup {<<BearerPrefix, t>> : t \in Delivered}

InitPosts ==
    /\ users = Accounts
    /\ now = 0
    /\ cfg = Load
    /\ req = [s \in Slots |-> Idle]
    /\ errs = [e \in ErrNames |-> ""]
    /\ nreq = 0
    /\ issued = {Accounts[i].refreshToken : i \in 1..Len(Accounts)}
    /\ exchanged = {}
    /\ cleared = {}
    /\ NewRateLimiter
    /\ posts = Posted

\* GET /posts/:id, GET /posts/slug/:slug and the owner's status updates.
NextPosts ==
    \/ \E s \in Slots : Respond(s)
    \/ \E s \in Slots, h \in PostHeaders, id \in PostIds, ok \in BOOLEAN :
          GetByID_Auth(s, h[1], h[2], id, ok)
    \/ \E s \in Slots, ok \in BOOLEAN : GetByID_Find(s, ok)
    \/ \E s \in Slots, ok \in BOOLEAN : GetByID_View(s, ok)
    \/ \E s \in Slots, h \in PostHeaders, slug \in Slugs, ok \in BOOLEAN :
          GetBySlug_Auth(s, h[1], h[2], slug, ok)
    \/ \E s \in Slots, ok \in BOOLEAN : GetBySlug_Find(s, ok)
    \/ \E s \in Slots, ok \in BOOLEAN : GetBySlug_View(s, ok)
    \/ \E s \in Slots, id \in PostIds, status \in PostStatusInputs, ok \in BOOLEAN :
          Update_Find(s, id, Author, status, ok)
    \/ \E s \in Slots, ok \in BOOLEAN : Update_Save(s, ok, FALSE)

SpecPosts == InitPosts /\ [][NextPosts]_vars

\* --------------------------------------------------- writing the posts
\* The users of the context: AuthMiddleware admits the active identities.
Callers == {users[i] : i \in {j \in LiveIds(users) : IsActive(users[j])}}

\* PUT /posts/:id and DELETE /posts/:id by every account.
NextPostWrites ==
    \/ \E s \in Slots : Respond(s)
    \/ \E s \in Slots, id \in PostIds, caller \in Callers, status \in PostStatusInputs,
          ok \in BOOLEAN :
          Update_Find(s, id, caller, status, ok)
    \/ \E s \in Slots, ok \in BOOLEAN, upsert \in BOOLEAN : Update_Save(s, ok, upsert)
    \/ \E s \in Slots, id \in PostIds, caller \in Callers, ok \in BOOLEAN :
          DeletePost_Find(s, id, caller, ok)
    \/ \E s \in Slots, ok \in BOOLEAN : DeletePost_Write(s, ok)

SpecPostWrites == InitPosts /\ [][NextPostWrites]_vars

\* ------------------------------------------------ the router's middleware
\* The addresses c.ClientIP() returns.
ClientIPs == Keys

\* uuid.UUID.String() of a user's id.
String(id) == <<"user-1", "user-2", "user-3">>[id]

\* The 429 response of RateLimit.
TooManyRequests ==
    [status |-> StatusTooManyRequests, code |-> CodeTooManyRequests,
     message |-> "Rate limit exceeded. Please try again later.", details |-> ""]

\* RateLimiter.Allow on the map m at time t: the value returned and the map
\* it leaves, the whole body running under rl.mu.
Allow(m, key, t) ==
    IF key \notin DOMAIN m \/ Expired(m[key], t)
    THEN [ret |-> TRUE,
          requests |-> Put(m, key, [count |-> 1, resetTime |-> t + Window])]
    ELSE IF m[key].count >= Limit
    THEN [ret |-> FALSE, requests |-> m]
    ELSE [ret |-> TRUE, requests |-> Put(m, key, [m[key] EXCEPT !.count = @ + 1])]

\* A variant of the key choice of RateLimit that reads the identity from the
\* token of the request.
RateLimitKey_FromToken(ctx, ip, scheme, tok, us, t) ==
    IF scheme = BearerPrefix /\ ValidateToken(tok, t) /\ tok.claims.kind = "access"
          /\ FindByID(us, tok.claims.uid) # NoUser
    THEN String(tok.claims.uid)
    ELSE ip

\* The key RateLimit chooses: c.ClientIP(), or the id of the user GetUser
\* finds in the gin.Context ctx.
RateLimitKey(ctx, ip, scheme, tok, us, t) ==
    IF ctx.user # NoUser THEN String(ctx.user.id) ELSE ip

\* router.Use(middleware.RateLimit(...)): the global middleware receives a
\* request for GET /auth/me from address ip, before the middleware of the
\* route has run, and calls limiter.Allow.
RateLimit(s, ip, scheme, tok) ==
    /\ Receive(s)
    /\ TryLock(mu)
    /\ LET key == RateLimitKey(req[s], ip, scheme, tok, users, now)
           out == Allow(requests, key, now)
       IN /\ requests' = out.requests
          /\ IF out.ret
             THEN /\ admits' = Admit(admits, key, now)
                  /\ Goto(s, [Idle EXCEPT !.pc = "rl_next", !.op = "Me", !.ip = ip,
                                          !.key = key, !.scheme = scheme, !.tok = tok])
             ELSE /\ admits' = admits
                  /\ Goto(s, [Answered("Me", TooManyRequests)
                                 EXCEPT !.ip = ip, !.key = key,
                                        !.scheme = scheme, !.tok = tok])
    /\ UNCHANGED <<users, now, cfg, errs, issued, exchanged, cleared, posts, mu, lim, ncalls>>

\* c.Next() of RateLimit: AuthMiddleware of the protected group, then the
\* handler from pc `first`.
Routed(s, op, first, ok) ==
    /\ req[s].pc = "rl_next"
    /\ req[s].op = op
    /\ IF ok THEN TRUE ELSE ReachesStore(req[s].scheme, req[s].tok, now)
    /\ LET out == AuthMiddleware(req[s].scheme, req[s].tok, users, now, errs, ok) IN
       /\ errs' = out.errs
       /\ IF out.abort
          THEN Goto(s, [req[s] EXCEPT !.pc = "done", !.resp = out.resp,
                                      !.lookups = out.lookups])
          ELSE Goto(s, [req[s] EXCEPT !.pc = first, !.user = out.user,
                                      !.claims = out.claims, !.next = out.next,
                                      !.lookups = out.lookups])
    /\ UNCHANGED <<users, now, cfg, limiter, posts, nreq, issued, exchanged, cleared>>

\* GET /auth/me behind the global middleware.
Me_Route(s, ok) == Routed(s, "Me", "me", ok)

\* Two users and an admin, each with the token pair of its Register call.
InitRoutes ==
    /\ users = Accounts
    /\ now = 0
    /\ cfg = Load
    /\ req = [s \in Slots |-> Idle]
    /\ errs = [e \in ErrNames |-> ""]
    /\ nreq = 0
    /\ issued = {Accounts[i].refreshToken : i \in 1..Len(Accounts)}
    /\ exchanged = {}
    /\ cleared = {}
    /\ NewRateLimiter
    /\ posts = <<>>

\* The headers of the requests through the router: none, or "Bearer "
\* followed by an access token a client was given.
RouteHeaders == {<<"", EmptyTok>>} \cup {<<BearerPrefix, AccessOf(r)>> : r \in issued}

\* Requests for GET /auth/me through the router, the cleanup goroutine and
\* the clock.
NextRoutes ==
    \/ LimiterTick
    \/ \E s \in Slots : Respond(s)
    \/ \E s \in Slots, ip \in ClientIPs, h \in RouteHeaders : RateLimit(s, ip, h[1], h[2])
    \/ \E s \in Slots, ok \in BOOLEAN : Me_Route(s, ok)
    \/ \E s \in Slots : Me(s)
    \/ Cleanup_Lock
    \/ Cleanup_Sweep
    \/ Cleanup_Unlock

SpecRoutes == InitRoutes /\ [][NextRoutes]_vars

\* ------------------------------------------------------ the list endpoints
\* c.DefaultQuery: the value of the query key, or the default when the
\* request has no such key.  A query is <<>> or <<value>>.
DefaultQuery(q, default) == IF q = <<>> THEN default ELSE q[1]

\* strconv.Atoi, its error dropped by the handlers: the number a decimal
\* string denotes, and 0 for a string that is no number.
Atoi(str) ==
    CASE str = "-1" -> 0 - 1
      [] str = "0" -> 0
      [] str = "1" -> 1
      [] str = "2" -> 2
      [] str = "3" -> 3
      [] str = "10" -> 10
      [] str = "100" -> 100
      [] str = "101" -> 101
      [] OTHER -> 0

\* The page and page_size queries of the requests.
PageQueries == {<<>>, <<"0">>, <<"2">>}
PageSizeQueries == {<<>>, <<"-1">>, <<"0">>, <<"2">>, <<"101">>, <<"abc">>}

\* Go's integer division and remainder of a non-negative a by b # 0: the
\* quotient is truncated toward zero.
Quo(a, b) == IF b > 0 THEN a \div b ELSE 0 - (a \div (0 - b))
Rem(a, b) == a - b * Quo(a, b)

\* response.Meta; a response without meta.
NoMeta == [page |-> 0, perPage |-> 0, total |-> 0, totalPages |-> 0]

\* postService.GetAll / GetPublished and userService.GetAll: the page and
\* the page size the query runs with.
PageUsed(page) == IF page < 1 THEN 1 ELSE page
PageSizeUsed(pageSize) == IF pageSize < 1 \/ pageSize > 100 THEN 10 ELSE pageSize

\* The Count of FindAllWithAuthor (every live post) or of FindPublished.
CountPosts(ps, all) ==
    Cardinality({i \in LivePosts(ps) : all \/ IsPublished(ps[i])})

\* response.Paginated: totalPages from total and perPage; the division
\* panics when perPage is 0.
Paginated(page, perPage, total) ==
    IF perPage = 0
    THEN [panic |-> TRUE, meta |-> NoMeta]
    ELSE [panic |-> FALSE,
          meta |-> [page |-> page, perPage |-> perPage, total |-> total,
                    totalPages |-> Quo(total, perPage)
                                     + (IF Rem(total, perPage) # 0 THEN 1 ELSE 0)]]

\* middleware.Recovery answers a panic of the handler.
Recovered ==
    [status |-> StatusInternalServerError, code |-> CodeInternalError,
     message |-> "Internal server error", details |-> ""]

\* PostHandler.GetAll: the queries are parsed, the service normalises its
\* own copies of page and pageSize and runs Count and Find with them.
GetAll_Query(s, pageQ, sizeQ, caller, ok) ==
    /\ Receive(s)
    /\ LET page == Atoi(DefaultQuery(pageQ, "1"))
           pageSize == Atoi(DefaultQuery(sizeQ, "10"))
           isAdmin == caller # NoUser /\ IsAdmin(caller)
       IN IF ok
          THEN Goto(s, [Idle EXCEPT !.pc = "ga_resp", !.op = "GetAll", !.user = caller,
                                    !.page = page, !.pageSize = pageSize,
                                    !.limit = PageSizeUsed(pageSize),
                                    !.offset = (PageUsed(page) - 1) * PageSizeUsed(pageSize),
                                    !.total = CountPosts(posts, isAdmin)])
          ELSE Goto(s, [Failed("GetAll", errs, "ErrInternal")
                           EXCEPT !.user = caller, !.page = page, !.pageSize = pageSize])
    /\ UNCHANGED <<users, now, cfg, limiter, posts, errs, issued, exchanged, cleared>>

\* response.Paginated(c, postResponses, page, pageSize, total) with the
\* handler's own page and pageSize.
GetAll_Paginated(s) ==
    /\ req[s].pc = "ga_resp"
    /\ LET out == Paginated(req[s].page, req[s].pageSize, req[s].total) IN
       IF out.panic
       THEN Goto(s, [req[s] EXCEPT !.pc = "done", !.resp = Recovered])
       ELSE Goto(s, [req[s] EXCEPT !.pc = "done", !.resp = SuccessResponse(StatusOK),
                                   !.meta = out.meta])
    /\ UNCHANGED <<users, now, cfg, limiter, posts, errs, nreq, issued, exchanged, cleared>>

\* Three posts of the author, two of them published.
Library ==
    Posted \o <<[id |-> 3, slug |-> "second-post", userID |-> 1,
                 status |-> PostStatusPublished, viewCount |-> 0, deleted |-> FALSE]>>

\* The accounts, and any number of the posts.
InitLists ==
    /\ users = Accounts
    /\ now = 0
    /\ cfg = Load
    /\ req = [s \in Slots |-> Idle]
    /\ errs = [e \in ErrNames |-> ""]
    /\ nreq = 0
    /\ issued = {Accounts[i].refreshToken : i \in 1..Len(Accounts)}
    /\ exchanged = {}
    /\ cleared = {}
    /\ NewRateLimiter
    /\ posts \in {SubSeq(Library, 1, n) : n \in 0..Len(Library)}

\* The user OptionalAuthMiddleware leaves in the context: none, or an admin.
ListCallers == {NoUser} \cup {u \in Callers : IsAdmin(u)}

\* GET /posts by anyone, with every page and page_size query.
NextLists ==
    \/ \E s \in Slots : Respond(s)
    \/ \E s \in Slots, pageQ \in PageQueries, sizeQ \in PageSizeQueries,
          caller \in ListCallers, ok \in BOOLEAN :
          GetAll_Query(s, pageQ, sizeQ, caller, ok)
    \/ \E s \in Slots : GetAll_Paginated(s)

SpecLists == InitLists /\ [][NextLists]_vars

\* ------------------------------------------------------------------ CORS
\* The Origin header of a request: none, two sites and one more.
Origins == {"", "https://app.example.com", "https://admin.example.com",
            "https://evil.example.net"}

\* The entries CORS_ALLOWED_ORIGINS is configured with.
OriginEntries == {"*", "https://app.example.com", "https://admin.example.com"}

\* The lists of allowed origins: up to MaxOrigins entries.
OriginLists ==
    UNION {[1..n -> OriginEntries] : n \in 0..MaxOrigins}

Methods == {"GET", "OPTIONS"}

\* A variant of the middleware that never falls back to "*".
AllowedOrigin_Strict(allowed, origin) ==
    IF Len(allowed) > 0 /\ allowed[1] # "*"
    THEN IF \E i \in 1..Len(allowed) : allowed[i] = origin THEN origin ELSE ""
    ELSE "*"

\* CORS: allowedOrigin starts as "*" and becomes the request's origin when
\* an explicit list holds it.
AllowedOrigin(allowed, origin) ==
    IF Len(allowed) > 0 /\ allowed[1] # "*"
          /\ \E i \in 1..Len(allowed) : allowed[i] = origin
    THEN origin
    ELSE "*"

\* middleware.CORS: the headers are set; a preflight request is answered
\* 204, any other goes on to the handler.
CORS(s, origin, method) ==
    /\ Receive(s)
    /\ IF method = "OPTIONS"
       THEN Goto(s, [Answered("CORS", SuccessResponse(StatusNoContent))
                        EXCEPT !.origin = origin,
                               !.allowOrigin = AllowedOrigin(cfg.AllowedOrigins, origin)])
       ELSE Goto(s, [Idle EXCEPT !.pc = "cors_next", !.op = "CORS", !.origin = origin,
                                 !.allowOrigin = AllowedOrigin(cfg.AllowedOrigins, origin)])
    /\ UNCHANGED <<users, now, cfg, limiter, posts, errs, issued, exchanged, cleared>>

\* c.Next(): the handler of the route (GET /health/live) answers.
CORS_Next(s) ==
    /\ req[s].pc = "cors_next"
    /\ Goto(s, [req[s] EXCEPT !.pc = "done", !.resp = SuccessResponse(StatusOK)])
    /\ UNCHANGED <<users, now, cfg, limiter, posts, errs, nreq, issued, exchanged, cleared>>

\* The server started with any list of allowed origins.
InitCORS ==
    /\ users = <<>>
    /\ now = 0
    /\ cfg \in {[AllowedOrigins |-> l] : l \in OriginLists}
    /\ req = [s \in Slots |-> Idle]
    /\ errs = [e \in ErrNames |-> ""]
    /\ nreq = 0
    /\ issued = {}
    /\ exchanged = {}
    /\ cleared = {}
    /\ NewRateLimiter
    /\ posts = <<>>

NextCORS ==
    \/ \E s \in Slots : Respond(s)
    \/ \E s \in Slots, origin \in Origins, method \in Methods : CORS(s, origin, method)
    \/ \E s \in Slots : CORS_Next(s)

SpecCORS == InitCORS /\ [][NextCORS]_vars

\* ================================================================ claims
\* C1: rotation is single-use.  A refresh token that RefreshTokens has
\* exchanged for a new pair is rejected by every later RefreshTokens call
\* that presents it, whatever happened in between.
C1_SingleUse == \A r \in exchanged : ~AcceptedBy(users, now, r)

\* C2: of two concurrent RefreshTokens calls that both read the same stored
\* refresh token, at most one returns a token pair: no call returns a pair
\* after a concurrent call holding the same stored token has returned one.
C2_OneConcurrentWinner ==
    \A s \in Slots :
        ~(/\ req[s].pc = "done"
          /\ req[s].op = "RefreshTokens"
          /\ req[s].raced
          /\ req[s].pair # NoPair)

\* A step in which Register, Login or RefreshTokens returns a token pair.
Issues(s) ==
    /\ req[s].pc \in {"rg_save", "lg_save", "rt_save"}
    /\ req'[s].pc = "done"
    /\ req'[s].pair # NoPair

\* C3: when Register, Login or RefreshTokens issues a new refresh token to
\* an identity, every other refresh token issued to that identity before is
\* rejected by RefreshTokens from then on: only the new one is accepted.
C3_NewTokenInvalidatesPrevious ==
    [][\A s \in Slots :
          Issues(s) =>
              \A r \in TokensOf(issued, req[s].user.id) :
                  r # req'[s].pair.refresh => ~AcceptedBy(users', now', r)]_vars

\* C4: after a successful Logout of an identity and until its next successful
\* Login, RefreshTokens rejects every refresh token issued to the identity
\* before the logout.
C4_LoggedOutRejectsAll == \A r \in cleared : ~AcceptedBy(users, now, r)

\* C5: when ChangePassword returns success the identity's stored refresh
\* token is empty, so no refresh token issued to it before is accepted, also
\* in executions where a store write fails.
C5_PasswordChangeClears ==
    [][\A s \in Slots :
          (req[s].pc = "cp_clear" /\ req'[s].pc = "done") =>
              /\ FindByID(users', req[s].user.id).refreshToken = EmptyTok
              /\ \A r \in TokensOf(issued, req[s].user.id) :
                    ~AcceptedBy(users', now', r)]_vars

\* The routes behind AuthMiddleware.
RequiredOps == {"Logout", "Me", "ChangePassword"}

\* The step in which AuthMiddleware, or OptionalAuthMiddleware, handles the
\* request slot s receives.
GuardStep(s) == req[s].pc = "idle" /\ req'[s].op \in RequiredOps

OptionalStep(s) == req[s].pc = "idle" /\ req'[s].op = "Optional"

\* The seven checks of the extraction: header present, bearer prefix,
\* non-empty token, token valid, kind access, identity found, status active.
ChecksPass(scheme, tok, us, t) ==
    /\ ~HeaderEmpty(scheme, tok)
    /\ HasBearerPrefix(scheme, tok)
    /\ tok # EmptyTok
    /\ ValidateToken(tok, t)
    /\ tok.claims.kind = "access"
    /\ FindByID(us, tok.claims.uid) # NoUser
    /\ FindByID(us, tok.claims.uid).status = StatusActive

\* C6: token kind is never confused.  A request to a guarded route, required
\* or optional, that presents a token of kind refresh never has an identity
\* or claims attached; a RefreshTokens call that presents a token of kind
\* access never gets past the checks and never returns a token pair.
C6_KindNeverConfused ==
    \A s \in Slots :
        /\ (req[s].op \in RequiredOps \cup {"Optional"} /\ req[s].tok.claims.kind = "refresh")
              => (req[s].user = NoUser /\ req[s].claims = NoClaims)
        /\ (req[s].op = "RefreshTokens" /\ req[s].tok.claims.kind = "access")
              => (req[s].pc = "done" /\ req[s].pair = NoPair /\ req[s].resp.status # StatusOK)

\* C6 happens: a guarded route has answered a request that presented a validly
\* signed, unexpired refresh token while RefreshTokens has answered a call
\* that presented a validly signed, unexpired access token.
C6_Witness ==
    \E s1, s2 \in Slots :
        /\ req[s1].pc \in {"opt", "done"}
        /\ req[s1].op \in RequiredOps \cup {"Optional"}
        /\ req[s1].scheme = BearerPrefix
        /\ req[s1].tok.claims.kind = "refresh"
        /\ ValidateToken(req[s1].tok, now)
        /\ req[s2].pc = "done"
        /\ req[s2].op = "RefreshTokens"
        /\ req[s2].tok.claims.kind = "access"
        /\ ValidateToken(req[s2].tok, now)

\* C7: behind AuthMiddleware the handler is invoked only if all seven checks
\* passed, and then the context holds the identity found for the token and
\* the token's claims, claims.UserID being the identity's id; when a check
\* fails the request is aborted, answered, and nothing is attached.
C7_HandlerOnlyIfAllChecksPass ==
    [][\A s \in Slots :
          GuardStep(s) =>
              /\ req'[s].next \in {0, 1}
              /\ req'[s].next = 1 =>
                    /\ req'[s].pc \in {"lo_clear", "me", "cp_find"}
                    /\ ChecksPass(req'[s].scheme, req'[s].tok, users, now)
                    /\ req'[s].user = FindByID(users, req'[s].tok.claims.uid)
                    /\ req'[s].claims = req'[s].tok.claims
                    /\ req'[s].claims.uid = req'[s].user.id
              /\ req'[s].next = 0 =>
                    /\ req'[s].pc = "done"
                    /\ req'[s].resp.status \notin {0, StatusOK}
                    /\ req'[s].user = NoUser
                    /\ req'[s].claims = NoClaims
              /\ ~ChecksPass(req'[s].scheme, req'[s].tok, users, now) => req'[s].next = 0]_vars

\* C7 happens: one request is in its handler with an identity attached while
\* another, which presented a token, was aborted by the guard.
C7_Witness ==
    \E s1, s2 \in Slots :
        /\ req[s1].pc = "me"
        /\ req[s1].next = 1
        /\ req[s1].user # NoUser
        /\ req[s1].claims.uid = req[s1].user.id
        /\ req[s2].pc = "done"
        /\ req[s2].op \in RequiredOps
        /\ req[s2].next = 0
        /\ req[s2].tok # EmptyTok
        /\ req[s2].user = NoUser

\* A request AuthMiddleware has aborted.
GuardRejected(s) == req[s].pc = "done" /\ req[s].op \in RequiredOps /\ req[s].next = 0

C9_InactiveIdentityNotAdmitted ==
    [][\A s \in Slots :
          LET tok == req'[s].tok
              user == FindByID(users, tok.claims.uid)
          IN
          (/\ GuardStep(s) \/ OptionalStep(s)
           /\ req'[s].scheme = BearerPrefix
           /\ ValidateToken(tok, now)
           /\ tok.claims.kind = "access"
           /\ user # NoUser
           /\ user.status # StatusActive) =>
              /\ req'[s].user = NoUser
              /\ req'[s].claims = NoClaims
              /\ GuardStep(s) => (req'[s].pc = "done" /\ req'[s].next = 0)
              /\ OptionalStep(s) => (req'[s].pc = "opt" /\ req'[s].next = 1)]_vars

\* C10: OptionalAuthMiddleware never rejects: whatever the header, the next
\* handler is invoked exactly once and no response is written by the guard;
\* when one of the seven extraction checks fails the handler runs with no
\* identity and no claims attached.
C10_OptionalNeverRejects ==
    [][\A s \in Slots :
          OptionalStep(s) =>
              /\ req'[s].pc = "opt"
              /\ req'[s].next = 1
              /\ req'[s].resp = NoResp
              /\ ~ChecksPass(req'[s].scheme, req'[s].tok, users, now) =>
                    (req'[s].user = NoUser /\ req'[s].claims = NoClaims)]_vars

\* The step in which AuthMiddleware and RequireAdmin handle the request to an
\* admin route that slot s receives.
AdminStep(s) == req[s].pc = "idle" /\ req'[s].op = "AdminInfo"

\* C11: the role gate lets a request through only if the identity the guard
\* attached has a role of the allowed set; a request it rejects is answered
\* "forbidden" (403, code 2004), never "unauthorized", and the handler behind
\* it is not invoked.
C11_RoleGate ==
    [][\A s \in Slots :
          AdminStep(s) =>
              LET found == FindByID(users, req'[s].tok.claims.uid)
                  passed == ChecksPass(req'[s].scheme, req'[s].tok, users, now)
              IN
              /\ req'[s].pc \in {"ad_info", "done"}
              /\ req'[s].pc = "ad_info" =>
                    /\ req'[s].next = 2
                    /\ passed
                    /\ req'[s].user = found
                    /\ req'[s].user.role = RoleAdmin
              /\ (req'[s].next >= 1 /\ req'[s].user.role # RoleAdmin) =>
                    /\ req'[s].pc = "done"
                    /\ req'[s].next = 1
                    /\ req'[s].user = found
                    /\ req'[s].resp = [status |-> StatusForbidden, code |-> CodeForbidden,
                                       message |-> "Insufficient permissions", details |-> ""]
              /\ (req'[s].pc = "done" /\ req'[s].next = 1) =>
                    /\ req'[s].resp.status = StatusForbidden
                    /\ req'[s].resp.status # StatusUnauthorized
                    /\ req'[s].resp.code # CodeUnauthorized]_vars

\* C11 happens: the gate rejected a request the guard had let through with an
\* identity whose role is user, and answered 403.
C11_Witness ==
    \E s \in Slots :
        /\ req[s].pc = "done"
        /\ req[s].op = "AdminInfo"
        /\ req[s].next = 1
        /\ req[s].user # NoUser
        /\ req[s].user.role = RoleUser
        /\ req[s].resp.status = StatusForbidden
        /\ req[s].resp.message = "Insufficient permissions"

\* C11 also happens the other way: the handler of an admin route runs for an
\* identity whose role is admin.
C11_Admitted ==
    \E s \in Slots :
        /\ req[s].pc = "ad_info"
        /\ req[s].next = 2
        /\ req[s].user.role = RoleAdmin

\* The part of C12 about the store: in either mode the guard calls
\* GetUserFromToken exactly when the header is present, has the bearer
\* prefix, carries a non-empty token that is valid and of kind access.
C12_LookupOnlyAfterTokenChecks ==
    [][\A s \in Slots :
          (GuardStep(s) \/ OptionalStep(s) \/ AdminStep(s)) =>
              /\ req'[s].lookups \in {0, 1}
              /\ req'[s].lookups = 1 <=> ReachesStore(req'[s].scheme, req'[s].tok, now)]_vars

\* C12: the guard, in required and in optional mode, runs the seven checks in
\* the order header present, bearer prefix, non-empty token, token valid, kind
\* access, identity lookup, status active, and stops at the first failure: the
\* store is queried only if the five checks before the lookup passed, and an
\* identity is attached only if the lookup and the status check after it
\* passed as well.
C12_ChecksInOrder ==
    [][\A s \in Slots :
          (GuardStep(s) \/ OptionalStep(s)) =>
              /\ req'[s].lookups = 1 <=> ReachesStore(req'[s].scheme, req'[s].tok, now)
              /\ req'[s].user # NoUser =>
                    /\ req'[s].lookups = 1
                    /\ ChecksPass(req'[s].scheme, req'[s].tok, users, now)]_vars

\* The step in which Login handles the request slot s receives.
LoginStep(s) == req[s].pc = "idle" /\ req'[s].op = "Login"

\* The response of response.Error for ErrInvalidCredentials.
InvalidCredentials ==
    [status |-> StatusUnauthorized, code |-> CodeInvalidCredentials,
     message |-> "Invalid credentials", details |-> ""]

ChangePasswordStep(s) == req[s].pc = "cp_find" /\ req'[s].pc # "cp_find"

\* The response of response.Error for ErrInvalidPassword.
InvalidPassword ==
    [status |-> StatusBadRequest, code |-> CodeInvalidPassword,
     message |-> "Invalid password", details |-> ""]

\* C14: ChangePassword called with an old password that does not match the
\* stored hash fails, with ErrInvalidPassword when the store answered the
\* lookup (with ErrInternal when it did not), and leaves the users table,
\* hence the stored refresh token and the stored hash, as they were.
C14_WrongOldPasswordChangesNothing ==
    [][\A s \in Slots :
          ChangePasswordStep(s) =>
              LET user == FindByID(users, req[s].user.id) IN
              (user # NoUser /\ user.password # GenerateFromPassword(req'[s].old)) =>
                  /\ req'[s].pc = "done"
                  /\ req'[s].resp \in {InvalidPassword, ErrorResponse(errs, "ErrInternal")}
                  /\ users' = users
                  /\ FindByID(users', user.id).refreshToken = user.refreshToken
                  /\ FindByID(users', user.id).password = user.password]_vars

\* C14 happens: ChangePassword was answered ErrInvalidPassword for an old
\* password that is not the identity's, and the identity still has a stored
\* refresh token.
C14_Witness ==
    \E s \in Slots :
        /\ req[s].pc = "done"
        /\ req[s].op = "ChangePassword"
        /\ req[s].next = 1
        /\ req[s].resp = InvalidPassword
        /\ FindByID(users, req[s].user.id) # NoUser
        /\ ~CheckPassword(FindByID(users, req[s].user.id), req[s].old)
        /\ FindByID(users, req[s].user.id).refreshToken # EmptyTok

\* The step in which RefreshTokens handles the request slot s receives.
RefreshStep(s) == req[s].pc = "idle" /\ req'[s].op = "RefreshTokens"

\* C15: RefreshTokens fails with ErrInvalidToken when the token is invalid,
\* of the wrong kind, or is not the identity's stored refresh token (the same
\* error value, so the same response, in the three cases), with
\* ErrUserNotFound when the lookup finds no identity or fails, and with
\* ErrForbidden when the identity is not active; in each case the users table
\* is unchanged and no token pair is returned.
C15_RefreshFailures ==
    [][\A s \in Slots :
          RefreshStep(s) =>
              LET tok == req'[s].tok
                  user == FindByID(users, tok.claims.uid)
                  InvalidToken == [status |-> StatusUnauthorized, code |-> CodeInvalidToken,
                                   message |-> "Invalid token", details |-> errs["ErrInvalidToken"]]
                  NotFound == [status |-> StatusNotFound, code |-> CodeUserNotFound,
                               message |-> "User not found", details |-> ""]
                  NotActive == [status |-> StatusForbidden, code |-> CodeForbidden,
                                message |-> "Forbidden", details |-> "Account is not active"]
                  failed == /\ req'[s].pc = "done"
                            /\ req'[s].pair = NoPair
                            /\ users' = users
              IN
              /\ req'[s].pc \in {"done", "rt_save"}
              /\ req'[s].pc = "done" => failed
              /\ IF ~ValidateToken(tok, now) \/ tok.claims.kind # "refresh"
                 THEN failed /\ req'[s].resp = InvalidToken
                 ELSE IF user = NoUser
                 THEN failed /\ req'[s].resp = NotFound
                 ELSE IF user.refreshToken # tok
                 THEN failed /\ req'[s].resp \in {InvalidToken, NotFound}
                 ELSE IF user.status # StatusActive
                 THEN failed /\ req'[s].resp \in {NotActive, NotFound}
                 ELSE req'[s].pc = "done" => req'[s].resp = NotFound]_vars

\* C15 happens: RefreshTokens answered ErrInvalidToken to a validly signed,
\* unexpired refresh token that is not the stored token of its identity.
C15_Witness ==
    \E s \in Slots :
        /\ req[s].pc = "done"
        /\ req[s].op = "RefreshTokens"
        /\ ValidateToken(req[s].tok, now)
        /\ req[s].tok.claims.kind = "refresh"
        /\ FindByID(users, req[s].tok.claims.uid) # NoUser
        /\ FindByID(users, req[s].tok.claims.uid).refreshToken # req[s].tok
        /\ req[s].resp.status = StatusUnauthorized
        /\ req[s].resp.code = CodeInvalidToken
        /\ req[s].pair = NoPair

\* C16: no token pair is issued to an identity that is not active.  When Login
\* or RefreshTokens returns a token pair, the stored status of the identity is
\* active at the moment the new refresh token is persisted, also when the
\* status is updated while the call is running.
C16_PairOnlyForActive ==
    [][\A s \in Slots :
          (Issues(s) /\ req[s].pc \in {"lg_save", "rt_save"}) =>
              LET user == FindByID(users, req[s].user.id) IN
              user # NoUser => user.status = StatusActive]_vars

\* RefreshTokens has rejected the refresh token the slot presented, a token
\* that was issued, because it is not the stored one or because the identity
\* is not active.
RefreshRejected(s) ==
    /\ req[s].pc = "done"
    /\ req[s].op = "RefreshTokens"
    /\ req[s].tok \in issued
    /\ req[s].pair = NoPair
    /\ req[s].resp.code \in {CodeInvalidToken, CodeForbidden}

\* C17: rejection of a refresh token is permanent.  A refresh token that
\* RefreshTokens has rejected, because it was superseded or cleared or because
\* the identity was not active, is not accepted by a RefreshTokens call after
\* that, whatever status changes, logins and logouts happened in between.
C17_RejectionPermanent ==
    \A s \in Slots : RefreshRejected(s) => ~AcceptedBy(users, now, req[s].tok)

\* The same for the tokens rejected because the identity was not active.
C17_InactiveRejectionPermanent ==
    \A s \in Slots :
        (RefreshRejected(s) /\ req[s].resp.code = CodeForbidden)
            => ~AcceptedBy(users, now, req[s].tok)

\* C18: ValidateToken applied to the access token of a pair generateTokenPair
\* has just issued for an identity succeeds and yields claims of kind access
\* with the id, email and role of the identity the pair was generated for;
\* applied to the refresh token it yields the same id, email and role with
\* kind refresh.
C18_IssuedTokensValidate ==
    [][\A s \in Slots :
          Issues(s) =>
              LET user == req[s].user
                  access == req'[s].pair.access
                  refresh == req'[s].pair.refresh
              IN
              /\ ValidateToken(access, now')
              /\ access.claims.kind = "access"
              /\ access.claims.uid = user.id
              /\ access.claims.email = user.email
              /\ access.claims.role = user.role
              /\ ValidateToken(refresh, now')
              /\ refresh.claims.kind = "refresh"
              /\ refresh.claims.uid = user.id
              /\ refresh.claims.email = user.email
              /\ refresh.claims.role = user.role]_vars

\* C18 happens: Login has issued a pair to an identity whose role was changed
\* to admin after it registered; both tokens validate and carry that role.
C18_Witness ==
    \E s \in Slots :
        /\ req[s].pc = "done"
        /\ req[s].op = "Login"
        /\ req[s].pair # NoPair
        /\ req[s].user.role = RoleAdmin
        /\ ValidateToken(req[s].pair.access, now)
        /\ req[s].pair.access.claims.kind = "access"
        /\ req[s].pair.access.claims.role = RoleAdmin
        /\ ValidateToken(req[s].pair.refresh, now)
        /\ req[s].pair.refresh.claims.kind = "refresh"
        /\ req[s].pair.refresh.claims.uid = req[s].user.id

\* The signing methods a token's header can name: the HMAC family, and the
\* asymmetric and unsecured ones.
HMACMethods == {"HS256", "HS384", "HS512"}

SigningMethods == HMACMethods \cup {"RS256", "ES256", "none"}

\* Tokens built without the configured secret, with claims of the forger's
\* choice: the claims of a delivered token, or those with the role admin, or
\* those with a later expiry, signed with another key or under a method that
\* is not HMAC.
Forged ==
    LET claimsOf(t) == {t.claims, [t.claims EXCEPT !.role = RoleAdmin],
                        [t.claims EXCEPT !.exp = t.claims.exp + 1]}
    IN
    {tok \in [claims : UNION {claimsOf(t) : t \in Delivered},
              key : {Secret, "attacker-key", ""},
              alg : SigningMethods] :
        tok.key # Secret \/ tok.alg \notin HMACMethods}

\* The token of the slot was not signed with the configured secret under an
\* HMAC method.
PresentsForged(s) ==
    /\ req[s].tok \notin {EmptyTok, Malformed}
    /\ req[s].tok.key # Secret \/ req[s].tok.alg \notin HMACMethods

\* C19: ValidateToken rejects every token signed with a secret that is not the
\* configured one and every token whose signing method is not of the HMAC
\* family, whatever its claims; a request that presents one gets
\* ErrInvalidToken from the required guard and from RefreshTokens, and no
\* identity, claims or token pair anywhere.
C19_ForgedTokensRejected ==
    /\ \A tok \in Forged : ~ValidateToken(tok, now)
    /\ \A s \in Slots :
          PresentsForged(s) =>
              /\ req[s].user = NoUser
              /\ req[s].claims = NoClaims
              /\ req[s].pair = NoPair
              /\ req[s].lookups = 0
              /\ req[s].op \in RequiredOps \cup {"AdminInfo", "RefreshTokens"} =>
                    /\ req[s].pc = "done"
                    /\ req[s].resp.status = StatusUnauthorized
                    /\ req[s].resp.code = CodeInvalidToken

\* C19 happens: the required guard has answered ErrInvalidToken to an
\* unexpired access token with the claims of an issued one, signed with a key
\* that is not the configured secret, while RefreshTokens has answered the
\* same to the stored refresh token re-signed under RS256.
C19_Witness ==
    \E s1, s2 \in Slots :
        /\ req[s1].pc = "done"
        /\ req[s1].op \in RequiredOps
        /\ req[s1].tok.key = "attacker-key"
        /\ req[s1].tok.alg = "HS256"
        /\ [req[s1].tok EXCEPT !.key = Secret] \in Delivered
        /\ now < req[s1].tok.claims.exp
        /\ req[s1].resp.code = CodeInvalidToken
        /\ req[s2].pc = "done"
        /\ req[s2].op = "RefreshTokens"
        /\ req[s2].tok.alg = "RS256"
        /\ FindByID(users, req[s2].tok.claims.uid).refreshToken = [req[s2].tok EXCEPT !.alg = "HS256"]
        /\ req[s2].resp.code = CodeInvalidToken

\* The configured life of a token of the given kind.
TTL(kind) == IF kind = "access" THEN AccessTTL ELSE RefreshTTL

\* C20: ValidateToken rejects every token whose expiry is not later than the
\* current time, validly signed or not.  The expiry of an issued token is its
\* issue time plus the TTL of its kind, so from that second on an access token
\* is not accepted by a guard and a refresh token is not accepted by
\* RefreshTokens.
C20_ExpiredTokensRejected ==
    [][/\ \A tok \in Presentable \ {EmptyTok, Malformed} :
             /\ tok.claims.exp = tok.claims.iat + TTL(tok.claims.kind)
             /\ now >= tok.claims.exp => ~ValidateToken(tok, now)
       /\ \A s \in Slots :
             (/\ GuardStep(s) \/ OptionalStep(s) \/ AdminStep(s) \/ RefreshStep(s)
              /\ req'[s].tok \notin {EmptyTok, Malformed}
              /\ now >= req'[s].tok.claims.iat + TTL(req'[s].tok.claims.kind)) =>
                 /\ req'[s].user = NoUser
                 /\ req'[s].claims = NoClaims
                 /\ req'[s].lookups = 0
                 /\ req'[s].pc # "rt_save"
                 /\ req'[s].pair = NoPair
                 /\ users' = users
                 /\ ~OptionalStep(s) =>
                       /\ req'[s].pc = "done"
                       /\ req'[s].next = 0
                       /\ req'[s].resp.status = StatusUnauthorized
                       /\ req'[s].resp.code = CodeInvalidToken]_vars

\* C20 happens: RefreshTokens has answered ErrInvalidToken to a validly signed
\* refresh token that is still the stored token of its active identity and
\* whose expiry has passed, while the required guard has done the same to a
\* validly signed access token whose expiry has passed.
C20_Witness ==
    \E s1, s2 \in Slots :
        /\ req[s1].pc = "done"
        /\ req[s1].op = "RefreshTokens"
        /\ req[s1].tok.claims.kind = "refresh"
        /\ req[s1].tok.key = Secret
        /\ req[s1].tok.alg = "HS256"
        /\ now >= req[s1].tok.claims.exp
        /\ FindByID(users, req[s1].tok.claims.uid).refreshToken = req[s1].tok
        /\ FindByID(users, req[s1].tok.claims.uid).status = StatusActive
        /\ req[s1].resp.code = CodeInvalidToken
        /\ req[s2].pc = "done"
        /\ req[s2].op \in RequiredOps
        /\ req[s2].scheme = BearerPrefix
        /\ req[s2].tok.claims.kind = "access"
        /\ req[s2].tok.key = Secret
        /\ req[s2].tok.alg = "HS256"
        /\ now >= req[s2].tok.claims.exp
        /\ req[s2].resp.code = CodeInvalidToken

\* ------------------------------------------------------------------ C21
\* A step in which Register answers with success.
RegisterSucceeds(s) ==
    /\ req[s].pc = "rg_save"
    /\ req'[s].pc = "done"
    /\ req'[s].resp = SuccessResponse(StatusCreated)

\* C21: when Register succeeds for a new email it returns a token pair, and
\* while the stored identity is as Register created it, a request that
\* presents the returned access token to the required-mode guard right then
\* is admitted with exactly that identity attached: the registered id and
\* email, role user, status active.
C21_RegisteredTokenAdmitted ==
    [][\A s \in Slots :
         RegisterSucceeds(s)
         => /\ req'[s].pair # NoPair
            /\ req'[s].pair.refresh # EmptyTok
            /\ (FindByID(users, req[s].user.id) = req[s].user
                => LET out == AuthMiddleware(BearerPrefix, req'[s].pair.access,
                                             users', now', errs', TRUE) IN
                   /\ ~out.abort
                   /\ out.user = FindByID(users', req[s].user.id)
                   /\ out.user.id = req[s].user.id
                   /\ out.user.email = req[s].email
                   /\ out.user.role = RoleUser
                   /\ out.user.status = StatusActive
                   /\ out.claims.uid = req[s].user.id)]_vars

\* Register succeeded for an email, and the Me request that presented the
\* returned access token is in its handler with the registered identity.
C21_Witness ==
    \E s \in Slots, r \in Slots :
        /\ req[s].op = "Register" /\ req[s].pc = "done" /\ req[s].pair # NoPair
        /\ req[r].pc = "me"
        /\ req[r].scheme = BearerPrefix
        /\ req[r].tok = req[s].pair.access
        /\ req[r].user.id = req[s].user.id
        /\ req[r].user.email = req[s].user.email
        /\ req[r].user.role = RoleUser
        /\ req[r].user.status = StatusActive

\* ------------------------------------------------------------------ C22
\* C22: the stored password is never the plaintext: the row Register
\* inserts, and the row ChangePassword writes, for any accepted password
\* (any length of at least 8 characters) holds a one-way hash, and
\* CheckPassword of that row with the plaintext returns true.
C22_StoredPasswordIsHash ==
    [][\A s \in Slots :
         /\ (req[s].pc = "rg_create" /\ req'[s].pc = "rg_save")
            => /\ users'[req'[s].user.id].password.hashed
               /\ CheckPassword(users'[req'[s].user.id], req[s].pw)
         /\ (req[s].pc = "cp_update" /\ req'[s].pc = "cp_clear"
                                     /\ req[s].user.id \in LiveIds(users))
            => /\ users'[req[s].user.id].password.hashed
               /\ CheckPassword(users'[req[s].user.id], req[s].pw)]_vars

\* ------------------------------------------------------------------ C23
\* A step of Register, Login, Logout, RefreshTokens or ChangePassword in
\* which the credential-store call of the step fails.
StoreCallFails(s) ==
    \/ \E email \in Emails, pw \in RegisterPasswords : Register_Exists(s, email, pw, FALSE)
    \/ Register_Create(s, FALSE)
    \/ Register_Save(s, FALSE)
    \/ \E email \in Emails, pw \in Passwords : Login_Find(s, email, pw, FALSE)
    \/ Login_Save(s, FALSE)
    \/ \E tok \in Presentable \ {EmptyTok} : RefreshTokens_Find(s, tok, FALSE)
    \/ RefreshTokens_Save(s, FALSE)
    \/ Logout_Clear(s, FALSE)
    \/ \E old \in Passwords, new \in Passwords : ChangePassword_Find(s, old, new, FALSE)
    \/ ChangePassword_Update(s, FALSE)
    \/ ChangePassword_Clear(s, FALSE)

\* C23: every failure of a credential-store call inside Register, Login,
\* Logout, RefreshTokens or ChangePassword makes the operation return
\* Internal: it answers with ErrInternal and returns no token pair, never
\* with success, InvalidCredentials or UserNotFound.
C23_StoreFailureIsInternal ==
    [][\A s \in Slots :
         StoreCallFails(s)
         => /\ req'[s].pc = "done"
            /\ req'[s].resp = ErrorResponse(errs', "ErrInternal")
            /\ req'[s].pair = NoPair]_vars

\* ------------------------------------------------------------------ C24
\* C24 as stated: a request the guard lets through to the role gate is
\* admitted or rejected according to the role in the claims of its access
\* token, whatever the stored role has become since the token was issued.
C24_GateByClaimsRole ==
    [][\A s \in Slots :
          (AdminStep(s) /\ req'[s].next >= 1)
          => (req'[s].pc = "ad_info" <=> req'[s].claims.role = RoleAdmin)]_vars

\* C24 amended: the role gate decides by the role of the stored identity at
\* the time of the request: a request with an access token issued before a
\* role change is admitted exactly when the stored role is in the allowed
\* set, and the role in the token's claims has no part in the decision.
C24_GateByStoredRole ==
    [][\A s \in Slots :
          (AdminStep(s) /\ req'[s].next >= 1)
          => /\ req'[s].claims = req'[s].tok.claims
             /\ req'[s].user = FindByID(users, req'[s].claims.uid)
             /\ req'[s].pc = "ad_info"
                   <=> FindByID(users, req'[s].claims.uid).role = RoleAdmin
             /\ req'[s].pc = "done"
                   <=> FindByID(users, req'[s].claims.uid).role # RoleAdmin]_vars

\* A request whose access token was issued while the identity's role was
\* user is in the handler of an admin route after UpdateRole made the
\* identity an admin.
C24_Witness ==
    \E s \in Slots :
        /\ req[s].pc = "ad_info"
        /\ req[s].claims.role = RoleUser
        /\ req[s].user.role = RoleAdmin
        /\ FindByID(users, req[s].claims.uid).role = RoleAdmin

\* ------------------------------------------------------------------ C25
\* Slot s holds a Logout or ChangePassword request that was answered with
\* success.
SessionEnded(s) ==
    /\ req[s].pc = "done"
    /\ req[s].op \in {"Logout", "ChangePassword"}
    /\ req[s].resp = SuccessResponse(StatusOK)

\* C25: Logout and ChangePassword do not revoke access tokens: after either
\* succeeded, the access token the request carried, and every other access
\* token issued to the identity, is accepted by the required-mode guard with
\* the identity attached for as long as it is unexpired and the identity is
\* stored and active.
C25_AccessTokensNotRevoked ==
    \A s \in Slots :
        SessionEnded(s) =>
            \A tok \in {req[s].tok} \cup {AccessOf(r) : r \in TokensOf(issued, req[s].user.id)} :
                (/\ now < tok.claims.exp
                 /\ FindByID(users, req[s].user.id) # NoUser
                 /\ IsActive(FindByID(users, req[s].user.id)))
                => LET out == AuthMiddleware(BearerPrefix, tok, users, now, errs, TRUE) IN
                   /\ ~out.abort
                   /\ out.user = FindByID(users, req[s].user.id)
                   /\ out.claims = tok.claims

\* Logout and ChangePassword both succeeded on requests that carried the same
\* access token, the stored refresh token is cleared, and the guard still
\* accepts that access token.
C25_Witness ==
    \E s \in Slots, r \in Slots :
        /\ SessionEnded(s) /\ req[s].op = "Logout"
        /\ SessionEnded(r) /\ req[r].op = "ChangePassword"
        /\ req[r].tok = req[s].tok
        /\ now < req[s].tok.claims.exp
        /\ FindByID(users, req[s].user.id) # NoUser
        /\ FindByID(users, req[s].user.id).refreshToken = EmptyTok
        /\ ~AuthMiddleware(BearerPrefix, req[s].tok, users, now, errs, TRUE).abort

\* ------------------------------------------------------------------ C26
\* No two rows of the users table have the same email.
UniqueEmails ==
    \A i \in 1..Len(users), j \in 1..Len(users) : users[i].email = users[j].email => i = j

\* All token pairs ever issued for one email went to one identity.
OneIdentityPerEmail ==
    \A r1 \in issued, r2 \in issued :
        r1.claims.email = r2.claims.email => r1.claims.uid = r2.claims.uid

\* C26: no two identities ever share an email.  Register with an email an
\* identity holds already fails with EmailExists and creates nothing; of the
\* Register calls that run concurrently with the same new email at most one
\* creates an identity and returns a token pair, and the other fails without
\* creating anything.
C26_EmailUnique ==
    [][/\ UniqueEmails'
       /\ OneIdentityPerEmail'
       /\ \A s \in Slots :
            /\ \A email \in Emails, pw \in RegisterPasswords :
                 (Register_Exists(s, email, pw, TRUE) /\ ExistsByEmail(users, email))
                 => /\ req'[s].pc = "done"
                    /\ req'[s].resp = ErrorResponse(errs, "ErrEmailExists")
                    /\ req'[s].pair = NoPair
                    /\ users' = users
            /\ (req[s].pc = "rg_create" /\ req'[s].pc # "rg_create"
                                        /\ ExistsByEmail(users, req[s].email))
                 => /\ req'[s].pc = "done"
                    /\ req'[s].resp.status >= StatusBadRequest
                    /\ req'[s].pair = NoPair
                    /\ users' = users
            /\ RegisterSucceeds(s)
                 => \A r \in Slots \ {s} :
                       (req[r].op = "Register" /\ req[r].pc = "done" /\ req[r].pair # NoPair)
                       => req[r].user.email # req'[s].user.email]_vars

\* Two Register calls ran concurrently with the same new email: one created
\* the identity and returned a pair, the other passed ExistsByEmail, failed
\* at the insert and returned none; the email has one row.
C26_Witness ==
    \E s \in Slots, r \in Slots :
        /\ req[s].op = "Register" /\ req[s].pc = "done" /\ req[s].pair # NoPair
        /\ req[r].op = "Register" /\ req[r].pc = "done" /\ req[r].pair = NoPair
        /\ req[r].email = req[s].user.email
        /\ req[r].resp = ErrorResponse(errs, "ErrInternal")
        /\ Cardinality({i \in 1..Len(users) : users[i].email = req[r].email}) = 1
        /\ nreq = 2

\* ------------------------------------------------------------------ C27
\* The step in which the guard, the role gate and UserHandler.UpdateRole let
\* an admin's request to change their own role to a non-admin role reach the
\* self-demotion check.
SelfDemotionStep(s) ==
    /\ req[s].pc = "idle"
    /\ req'[s].op = "UserHandler.UpdateRole"
    /\ req'[s].next = 2
    /\ req'[s].user.id = req'[s].id
    /\ req'[s].role # RoleAdmin

\* C27 as stated: an admin's attempt to change their own role to a non-admin
\* value is rejected with a Forbidden error and leaves the stored role
\* unchanged.
C27_SelfDemotionForbidden ==
    [][\A s \in Slots :
          SelfDemotionStep(s)
          => /\ req'[s].pc = "done"
             /\ req'[s].resp.status = StatusForbidden
             /\ req'[s].resp.code = CodeForbidden
             /\ users' = users]_vars

\* C27 amended: the attempt is rejected with a BadRequest error (400, code
\* 1003, details "You cannot change your own role"), the stored role stays
\* admin, the service is not called, and the check compares the id of the
\* identity the guard attached with the id of the path.
C27_SelfDemotionBadRequest ==
    [][\A s \in Slots :
          SelfDemotionStep(s)
          => /\ req'[s].pc = "done"
             /\ req'[s].resp = [status |-> StatusBadRequest, code |-> CodeBadRequest,
                                message |-> "Bad request",
                                details |-> "You cannot change your own role"]
             /\ req'[s].user = FindByID(users, req'[s].tok.claims.uid)
             /\ req'[s].user.role = RoleAdmin
             /\ users' = users
             /\ FindByID(users', req'[s].id).role = RoleAdmin]_vars

\* An admin asked for their own role to become user or moderator and got the
\* 400 answer; the stored role is admin.
C27_Witness ==
    \E s \in Slots :
        /\ req[s].pc = "done"
        /\ req[s].op = "UserHandler.UpdateRole"
        /\ req[s].next = 2
        /\ req[s].user.id = req[s].id
        /\ req[s].role \in {RoleUser, RoleModerator}
        /\ req[s].resp.details = "You cannot change your own role"
        /\ FindByID(users, req[s].id).role = RoleAdmin

\* ------------------------------------------------------------------ C28
\* The program points at which a goroutine reads or writes rl.requests.
InMap(p) == lim[p].pc \in {"al_read", "al_write", "cl_sweep"}

\* C28: for every key, the number of Allow calls that return true between
\* the creation of the key's window entry and its resetTime never exceeds
\* the limit, however the Allow calls and the cleanup sweep interleave; and a
\* goroutine reads or writes the requests map only while it holds the lock.
C28_AtMostLimitPerWindow ==
    /\ \A k \in DOMAIN admits : admits[k].count <= Limit
    /\ \A p \in Procs : InMap(p) => mu = p
    /\ \A p \in Procs, q \in Procs : (InMap(p) /\ InMap(q)) => p = q
    /\ \A k \in DOMAIN requests :
          /\ requests[k].count <= Limit
          /\ k \in DOMAIN admits
          /\ requests[k] = admits[k]

\* A key's window is full and a further Allow call for it was refused before
\* the reset time; the cleanup sweep ran at a time inside that window, after
\* the first tick, and the entry is in the map.
C28_Witness ==
    \E p \in Clients :
        /\ lim[p].pc = "al_unlock"
        /\ lim[p].ret = FALSE
        /\ lim[p].now <= admits[lim[p].key].resetTime
        /\ admits[lim[p].key].count = Limit
        /\ lim[Sweeper].pc = "idle"
        /\ lim[Sweeper].now >= 1
        /\ lim[Sweeper].now + Window >= admits[lim[p].key].resetTime
        /\ lim[Sweeper].now <= admits[lim[p].key].resetTime
        /\ lim[p].key \in DOMAIN requests

\* ------------------------------------------------------------------ C29
\* The step in which GetByID or GetBySlug answers for the post it fetched.
ViewStep(s) == req[s].pc = "gp_view" /\ req'[s].pc = "done"

\* The request of slot s comes from the owner of the post it fetched or from
\* an admin.
OwnerOrAdmin(s) ==
    /\ req[s].user # NoUser
    /\ (req[s].user.id = req[s].post.userID \/ req[s].user.role = RoleAdmin)

\* C29: GetByID and GetBySlug return a post that is not published only to
\* its owner or to an admin; every other caller, anonymous or authenticated,
\* is answered NotFound, and a request that is denied does not increment the
\* post's view count.
C29_UnpublishedOnlyToOwnerOrAdmin ==
    [][\A s \in Slots :
          ViewStep(s) =>
              /\ (req[s].post.status # PostStatusPublished /\ ~OwnerOrAdmin(s))
                 => /\ req'[s].resp.status = StatusNotFound
                    /\ req'[s].resp.code = CodeNotFound
                    /\ posts' = posts
              /\ req'[s].resp.status = StatusOK
                 => (req[s].post.status = PostStatusPublished \/ OwnerOrAdmin(s))
              /\ req'[s].resp.status \in {StatusOK, StatusNotFound}
              /\ req'[s].resp.status # StatusOK => posts' = posts
              /\ req'[s].user # NoUser
                 => /\ req'[s].user.id = req'[s].tok.claims.uid
                    /\ req'[s].scheme = BearerPrefix
                    /\ req'[s].tok.key = Secret]_vars

\* The reader, who is authenticated and neither the owner nor an admin, asked
\* for the draft and got NotFound; the draft's view count is still 0.
C29_Witness ==
    \E s \in Slots :
        /\ req[s].pc = "done"
        /\ req[s].op \in {"GetByID", "GetBySlug"}
        /\ req[s].user # NoUser
        /\ req[s].user.id # req[s].post.userID
        /\ req[s].user.role = RoleUser
        /\ req[s].post.status = PostStatusDraft
        /\ req[s].resp = ResponseNotFound("Post not found")
        /\ posts[req[s].post.id].viewCount = 0

\* ------------------------------------------------------------------ C30
\* The ids of the identities deleted through userService.Delete.
DeletedIds(us) == {i \in 1..Len(us) : us[i].deleted}

\* C30: after an identity is deleted through userService.Delete, the
\* required-mode guard rejects its unexpired access tokens, RefreshTokens
\* with its stored refresh token fails with UserNotFound, and no operation
\* issues a token pair to it.
C30_DeletedIdentityGetsNothing ==
    [][/\ \A i \in DeletedIds(users') :
            /\ \A r \in TokensOf(issued', i) :
                  AuthMiddleware(BearerPrefix, AccessOf(r), users', now', errs', TRUE).abort
            /\ (users'[i].refreshToken # EmptyTok
                   /\ ValidateToken(users'[i].refreshToken, now'))
               => RefreshTokensCheck(users'[i].refreshToken, users', now', TRUE)
                     = "ErrUserNotFound"
       /\ \A s \in Slots :
            Issues(s) => req'[s].user.id \notin DeletedIds(users')]_vars

\* ------------------------------------------------------------------ C31
\* A step in which the global RateLimit middleware receives a request and
\* calls limiter.Allow.
RateLimitStep(s) ==
    /\ req[s].pc = "idle"
    /\ req'[s].pc \in {"rl_next", "done"}
    /\ req'[s].key # ""

\* C31: for a request that carries a valid access token of an active
\* identity, the global rate limiter counts the request against the
\* identity's id and not against the client IP.
C31_AuthenticatedCountedById ==
    [][\A s \in Slots :
          (RateLimitStep(s)
              /\ ChecksPass(req'[s].scheme, req'[s].tok, users, now))
          => req'[s].key = String(req'[s].tok.claims.uid)]_vars

\* ------------------------------------------------------------------ C32
\* C32: the refresh token of a pair that Register, Login or RefreshTokens
\* returns is a string no earlier operation has returned, and the refresh
\* token a successful RefreshTokens returns differs from the one presented.
C32_RefreshTokensDistinct ==
    [][\A s \in Slots :
          Issues(s)
          => /\ req'[s].pair.refresh \notin issued
             /\ req[s].pc = "rt_save" => req'[s].pair.refresh # req[s].tok]_vars

\* ------------------------------------------------------------------ C33
\* Slot s is the only request in progress and the row of its identity is
\* still the row the request read or created: nothing ran concurrently on
\* that identity.
RunsAlone(s) ==
    /\ \A r \in Slots \ {s} : req[r].pc \in {"idle", "done"}
    /\ FindByID(users, req[s].user.id) = req[s].user

\* C33: whenever Register, Login or RefreshTokens returns a token pair and
\* nothing ran concurrently on the identity, the stored refresh token is the
\* returned one, so RefreshTokens accepts it, also when a store write fails.
C33_ReturnedTokenIsStored ==
    [][\A s \in Slots :
          (Issues(s) /\ RunsAlone(s))
          => /\ users'[req[s].user.id].refreshToken = req'[s].pair.refresh
             /\ AcceptedBy(users', now', req'[s].pair.refresh)]_vars

\* ------------------------------------------------------------------ C34
\* A step in which Register returns an error.
RegisterFails(s) ==
    /\ req[s].pc \in {"idle", "rg_create", "rg_save"}
    /\ req'[s].pc = "done"
    /\ req'[s].op = "Register"
    /\ req'[s].resp.status # StatusCreated

\* C34: Register is all-or-nothing.  When Register returns an error the
\* users table holds no row that the call created.
C34_RegisterAllOrNothing ==
    [][\A s \in Slots :
          RegisterFails(s) => req[s].user.id \notin LiveIds(users')]_vars

\* ------------------------------------------------------------------ C35
\* C35: handling a request never modifies the predefined error values, so
\* the error response to a request does not depend on earlier requests: a
\* token with a bad signature is answered with the plain ErrInvalidToken
\* whatever was presented before.
C35_PredefinedErrorsUnmodified ==
    /\ errs = [e \in ErrNames |-> ""]
    /\ \A s \in Slots :
          (/\ req[s].pc = "done"
           /\ req[s].resp.code = CodeInvalidToken
           /\ req[s].tok # EmptyTok
           /\ req[s].tok.key # Secret)
          => req[s].resp.details = ""

\* ------------------------------------------------------------------ C36
\* The body of Allow runs in goroutine p for a key whose entry is gone or
\* whose resetTime has passed.
AllowAfterReset(p) ==
    /\ lim[p].pc = "al_write"
    /\ lim'[p].pc = "al_unlock"
    /\ \/ lim[p].key \notin DOMAIN requests
       \/ lim[p].now > requests[lim[p].key].resetTime

\* C36: a refusal does not outlast the window.  An Allow call made after the
\* key's resetTime has passed returns true and restarts the key's counter at
\* 1 with the resetTime now + window, whether the entry is still in the map
\* or the cleanup sweep has removed it.
C36_AdmittedAgainAfterReset ==
    [][\A p \in Clients :
          AllowAfterReset(p)
          => /\ lim'[p].ret
             /\ requests'[lim[p].key] = [count |-> 1, resetTime |-> lim[p].now + Window]]_vars

\* Allow has refused a key, and a later call for the same key, made after
\* the window, has been admitted with a new window.
C36_Witness ==
    \E p, q \in Clients :
        /\ lim[q].pc = "idle" /\ lim[q].key # "" /\ ~lim[q].ret
        /\ lim[p].pc = "al_unlock" /\ lim[p].key = lim[q].key /\ lim[p].ret
        /\ lim[p].now > lim[q].now + Window
        /\ requests[lim[p].key] = [count |-> 1, resetTime |-> lim[p].now + Window]

\* ------------------------------------------------------------------ C37
\* A step in which postService.Update or Delete runs FindByID and its
\* check for the post id and the caller of slot s.
PostCheckStep(s) ==
    /\ req[s].pc = "idle"
    /\ req'[s].op \in {"Update", "DeletePost"}
    /\ req'[s].pc \in {"done", "up_save", "dp_write"}

\* The caller of slot s owns the post or is an admin.
CallerMayWrite(s, post) == post.userID = req[s].user.id \/ IsAdmin(req[s].user)

\* C37: postService.Update and Delete change or remove a post only for a
\* caller who is the post's owner or an admin, and only that post; for any
\* other caller they return Forbidden, for a post that does not exist
\* NotFound, and both leave the posts as they are.
C37_PostWritesByOwnerOrAdmin ==
    [][/\ \A i \in 1..Len(posts) :
            posts'[i] # posts[i]
            => \E s \in Slots :
                  /\ req[s].pc \in {"up_save", "dp_write"}
                  /\ req'[s].pc = "done"
                  /\ req[s].id = i
                  /\ CallerMayWrite(s, req[s].post)
                  /\ req[s].post.userID = posts[i].userID
       /\ \A s \in Slots :
            PostCheckStep(s)
            => LET post == FindPostByID(posts, req'[s].id) IN
               /\ posts' = posts
               /\ (req'[s].resp.status # StatusInternalServerError /\ post = NoPost)
                  => (/\ req'[s].pc = "done"
                      /\ req'[s].resp.status = StatusNotFound
                      /\ req'[s].resp.code = CodeNotFound)
               /\ (/\ req'[s].resp.status # StatusInternalServerError
                   /\ post # NoPost
                   /\ post.userID # req'[s].user.id
                   /\ ~IsAdmin(req'[s].user))
                  => (/\ req'[s].pc = "done"
                      /\ req'[s].resp.status = StatusForbidden
                      /\ req'[s].resp.code = CodeForbidden)]_vars

\* A caller who is neither the owner nor an admin was answered Forbidden,
\* and the owner's update and an admin's delete have gone through.
C37_Witness ==
    /\ \E s \in Slots :
          /\ req[s].pc = "done" /\ req[s].op \in {"Update", "DeletePost"}
          /\ req[s].resp.status = StatusForbidden
          /\ req[s].user.id = 3
    /\ posts[1].status = PostStatusPublished
    /\ posts[2].deleted
    /\ \E s \in Slots :
          /\ req[s].pc = "done" /\ req[s].op = "DeletePost"
          /\ req[s].resp.status = StatusNoContent
          /\ IsAdmin(req[s].user) /\ req[s].id = 2

\* ------------------------------------------------------------------ C38
\* ceil(total / perPage) for perPage > 0.
CeilDiv(total, perPage) == (total + perPage - 1) \div perPage

\* C38: for every page and page_size query a list endpoint whose store
\* calls succeed answers 200 with a meta whose page and per_page are the
\* page and the page size the query ran with (page < 1 becomes 1, a
\* page_size outside 1..100 becomes 10) and whose total_pages is
\* ceil(total / per_page).
C38_MetaMatchesQuery ==
    [][\A s \in Slots :
          (req[s].pc = "ga_resp" /\ req'[s].pc = "done")
          => /\ req'[s].resp.status = StatusOK
             /\ req'[s].meta.perPage = req[s].limit
             /\ req'[s].meta.perPage \in 1..100
             /\ req'[s].meta.page = (req[s].offset \div req[s].limit) + 1
             /\ req'[s].meta.page >= 1
             /\ req'[s].meta.total = req[s].total
             /\ req'[s].meta.totalPages = CeilDiv(req[s].total, req[s].limit)]_vars

\* ------------------------------------------------------------------ C39
\* The origin is an entry of the configured list.
Listed(origin) == \E i \in 1..Len(cfg.AllowedOrigins) : cfg.AllowedOrigins[i] = origin

\* C39: with an explicit list of allowed origins (its first entry is not
\* "*") the Access-Control-Allow-Origin header of a request that has an
\* Origin is that origin only for an origin of the list, and a request from
\* an origin outside the list is never answered with a value that permits
\* it (its origin, or "*").
C39_OnlyListedOriginsAllowed ==
    \A s \in Slots :
        (/\ req[s].op = "CORS"
         /\ req[s].pc \in {"cors_next", "done"}
         /\ req[s].origin # ""
         /\ Len(cfg.AllowedOrigins) > 0
         /\ cfg.AllowedOrigins[1] # "*")
        => /\ req[s].allowOrigin = req[s].origin => Listed(req[s].origin)
           /\ ~Listed(req[s].origin) => req[s].allowOrigin \notin {"*", req[s].origin}

====
